---- MODULE Spec2Model ----
(***************************************************************************)
(* The SEO audit pipeline of app/tasks/orchestrator.py: the Celery chain   *)
(* run_advertools_crawl -> compile_report_from_crawl ->                    *)
(* check_external_links -> save_final_report, the failure marker           *)
(* _mark_audit_failed, the error classifier of app/utils/error_handler.py  *)
(* and the webhook notifier send_report_to_dashboard.                      *)
(*                                                                         *)
(* Text is modelled by TLA+ strings (TLC evaluates Len, \o and SubSeq on   *)
(* them), so lower-casing, prefixing and substring search are computed as  *)
(* the Python code computes them.  An optional value (None, NaN, a missing *)
(* column) is a sequence of length 0, a present value v is <<v>>.          *)
(*                                                                         *)
(* The collaborators the code calls (DNS, the crawler, pandas' file read,  *)
(* the HTTP probes, the Celery broker, the dashboard) are the environment: *)
(* each call's outcome is drawn from a small set.  The relational store is *)
(* taken to honour its contract (a commit of an existing audit succeeds).  *)
(***************************************************************************)
EXTENDS Integers, Sequences, FiniteSets, TLC

VARIABLES
    url,        \* the url argument of run_full_audit (also Audit.url)
    settings,   \* [callback_url, api_key]: is DASHBOARD_CALLBACK_URL / DASHBOARD_API_KEY set
    audit,      \* the Audit row: status, error_message, technical_error, report_json, completed_at
    pc,         \* position of the chain: next stage to run, "failing", "notify", "done", "aborted"
    running,    \* the stage that runs or ran last ("" before the first)
    marks,      \* the _mark_audit_failed calls the failing stage still makes, in order
    crawl_file, \* content of results/audit_results_<id>.jl
    chain_arg,  \* the previous task's return value, handed to the next task by the chain
    queue,      \* send_report_to_dashboard tasks in the broker: sequence of [retries, countdown, audit_when_queued]
    clock,      \* datetime.utcnow(), one tick per read
    hist,       \* history: what has happened so far (never read by the program)
    engine      \* the operation a specification follows step by step (None in the pipeline):
                \* check_external_links_async with its chunks, workers and files, or a call

vars == <<url, settings, audit, pc, running, marks, crawl_file, chain_arg, queue, clock, hist,
          engine>>

None == <<>>
Some(v) == <<v>>

----------------------------------------------------------------------------
(* Python str operations *)

Chars(s) == {SubSeq(s, i, i) : i \in 1..Len(s)}

\* p in s
Contains(s, p) ==
    \E i \in 1..(Len(s) - Len(p) + 1) : SubSeq(s, i, i + Len(p) - 1) = p

\* s.startswith(p)
StartsWith(s, p) == Len(p) <= Len(s) /\ SubSeq(s, 1, Len(p)) = p

\* s.endswith(p)
EndsWith(s, p) == Len(p) <= Len(s) /\ SubSeq(s, Len(s) - Len(p) + 1, Len(s)) = p

\* index of the first occurrence of one of the characters cs in s, Len(s)+1 if none
FirstOf(s, cs) ==
    LET hits == {i \in 1..Len(s) : SubSeq(s, i, i) \in cs}
    IN  IF hits = {} THEN Len(s) + 1 ELSE CHOOSE i \in hits : \A j \in hits : i <= j

UpperCase == <<"A","B","C","D","E","F","G","H","I","J","K","L","M",
               "N","O","P","Q","R","S","T","U","V","W","X","Y","Z">>
LowerCase == <<"a","b","c","d","e","f","g","h","i","j","k","l","m",
               "n","o","p","q","r","s","t","u","v","w","x","y","z">>

LowerChar(c) ==
    IF \E k \in 1..26 : UpperCase[k] = c
    THEN LowerCase[CHOOSE k \in 1..26 : UpperCase[k] = c]
    ELSE c

\* A conversion that keeps the letters as they are (used to test ClassifierIgnoresCase)
keep_case(s) == s

\* s.lower()
RECURSIVE Lower(_)
Lower(s) ==
    IF Len(s) = 0 THEN ""
    ELSE IF Len(s) = 1 THEN LowerChar(s)
    ELSE Lower(SubSeq(s, 1, Len(s) \div 2)) \o Lower(SubSeq(s, Len(s) \div 2 + 1, Len(s)))

\* s.strip() for the blank
RECURSIVE LStrip(_)
LStrip(s) == IF s # "" /\ SubSeq(s, 1, 1) = " " THEN LStrip(SubSeq(s, 2, Len(s))) ELSE s
RECURSIVE RStrip(_)
RStrip(s) == IF s # "" /\ SubSeq(s, Len(s), Len(s)) = " " THEN RStrip(SubSeq(s, 1, Len(s) - 1)) ELSE s
Strip(s) == RStrip(LStrip(s))

----------------------------------------------------------------------------
(* app/utils/error_handler.py *)

\* ERROR_PATTERNS, in the insertion order classify_error iterates it in
ERROR_PATTERNS == <<
    [pattern |-> "nxdomain",
     user |-> "Website not found. Please check the URL and try again.",
     status |-> "FAILED"],
    [pattern |-> "dns resolution failed",
     user |-> "Website not found. Please check the URL and try again.",
     status |-> "FAILED"],
    [pattern |-> "name or service not known",
     user |-> "Website not found. Please check the URL and try again.",
     status |-> "FAILED"],
    [pattern |-> "nodename nor servname provided",
     user |-> "Invalid website address. Please check the URL format.",
     status |-> "FAILED"],
    [pattern |-> "domain validation failed",
     user |-> "Website not found. Please check the URL and try again.",
     status |-> "FAILED"],
    [pattern |-> "does not exist",
     user |-> "Website not found. Please check the URL and try again.",
     status |-> "FAILED"],
    [pattern |-> "connection timeout",
     user |-> "Website is taking too long to respond. Please try again later.",
     status |-> "FAILED"],
    [pattern |-> "connection timed out",
     user |-> "Website is taking too long to respond. Please try again later.",
     status |-> "FAILED"],
    [pattern |-> "connection refused",
     user |-> "Website is currently unavailable. Please try again later.",
     status |-> "FAILED"],
    [pattern |-> "connection reset",
     user |-> "Connection to website was interrupted. Please try again.",
     status |-> "FAILED"],
    [pattern |-> "network is unreachable",
     user |-> "Network connection issue. Please check your internet connection.",
     status |-> "FAILED"],
    [pattern |-> "no route to host",
     user |-> "Website server is unreachable. Please try again later.",
     status |-> "FAILED"],
    [pattern |-> "http 400",
     user |-> "Invalid request to website. Please check the URL.",
     status |-> "FAILED"],
    [pattern |-> "http 401",
     user |-> "Website requires authentication to access.",
     status |-> "FAILED"],
    [pattern |-> "http 403",
     user |-> "Access to this website is forbidden.",
     status |-> "FAILED"],
    [pattern |-> "http 404",
     user |-> "The webpage was not found. Please check the URL.",
     status |-> "FAILED"],
    [pattern |-> "http 429",
     user |-> "Website is limiting requests. Please try again later.",
     status |-> "FAILED"],
    [pattern |-> "http 500",
     user |-> "Website is experiencing technical difficulties.",
     status |-> "PARTIAL"],
    [pattern |-> "http 502",
     user |-> "Website gateway error. Please try again later.",
     status |-> "FAILED"],
    [pattern |-> "http 503",
     user |-> "Website is temporarily unavailable. Please try again later.",
     status |-> "FAILED"],
    [pattern |-> "http 504",
     user |-> "Website gateway timeout. Please try again later.",
     status |-> "FAILED"],
    [pattern |-> "ssl",
     user |-> "Website security certificate issues detected.",
     status |-> "FAILED"],
    [pattern |-> "certificate",
     user |-> "Website security certificate issues detected.",
     status |-> "FAILED"],
    [pattern |-> "handshake",
     user |-> "Secure connection to website failed.",
     status |-> "FAILED"],
    [pattern |-> "redirect",
     user |-> "Website has configuration issues preventing analysis.",
     status |-> "FAILED"],
    [pattern |-> "too many redirects",
     user |-> "Website has too many redirects. Please check the URL.",
     status |-> "FAILED"],
    [pattern |-> "empty response",
     user |-> "Website returned no content to analyze.",
     status |-> "FAILED"],
    [pattern |-> "no content",
     user |-> "No content could be analyzed on this website.",
     status |-> "FAILED"],
    [pattern |-> "keyerror: 'status'",
     user |-> "Website structure prevented proper analysis.",
     status |-> "FAILED"],
    [pattern |-> "keyerror: 'url'",
     user |-> "Website structure prevented proper analysis.",
     status |-> "FAILED"],
    [pattern |-> "empty dataframe",
     user |-> "No analyzable content found on this website.",
     status |-> "FAILED"],
    [pattern |-> "keyerror: 'title'",
     user |-> "Website structure prevented proper analysis.",
     status |-> "FAILED"],
    [pattern |-> "keyerror: 'internal'",
     user |-> "Website structure prevented proper analysis.",
     status |-> "FAILED"],
    [pattern |-> "crawl validation failed",
     user |-> "Website could not be properly analyzed.",
     status |-> "FAILED"],
    [pattern |-> "crawl produced no usable results",
     user |-> "No content could be analyzed on this website.",
     status |-> "FAILED"],
    [pattern |-> "spider closed",
     user |-> "Website analysis was interrupted.",
     status |-> "PARTIAL"],
    [pattern |-> "closespider",
     user |-> "Website analysis reached configured limits.",
     status |-> "PARTIAL"],
    [pattern |-> "invalid url",
     user |-> "Please enter a valid website URL (e.g., https://example.com).",
     status |-> "FAILED"],
    [pattern |-> "malformed url",
     user |-> "Please enter a valid website URL format.",
     status |-> "FAILED"],
    [pattern |-> "missing scheme",
     user |-> "Please include http:// or https:// in the URL.",
     status |-> "FAILED"],
    [pattern |-> "permission denied",
     user |-> "System permission error occurred during analysis.",
     status |-> "FAILED"],
    [pattern |-> "disk space",
     user |-> "System storage issue during analysis.",
     status |-> "FAILED"],
    [pattern |-> "file not found",
     user |-> "Analysis results could not be processed.",
     status |-> "FAILED"],
    [pattern |-> "timeout",
     user |-> "Analysis took too long to complete. Please try again.",
     status |-> "FAILED"],
    [pattern |-> "timed out",
     user |-> "Website analysis timed out. Please try again later.",
     status |-> "FAILED"],
    [pattern |-> "memory",
     user |-> "Website is too large to analyze completely.",
     status |-> "PARTIAL"],
    [pattern |-> "out of memory",
     user |-> "Website is too large to analyze completely.",
     status |-> "PARTIAL"]
>>

\* A classifier without its fallback message (used to test ClassifierTotal)
no_user_message == ""

GenericUserMessage == "Something went wrong while analyzing this website. Please try again."

\* the first pattern of ERROR_PATTERNS contained in the lower-cased message, 0 if none
FirstPattern(error_lower) ==
    LET hits == {k \in 1..Len(ERROR_PATTERNS) : Contains(error_lower, ERROR_PATTERNS[k].pattern)}
    IN  IF hits = {} THEN 0 ELSE CHOOSE k \in hits : \A j \in hits : k <= j

\* classify_error(error_message, url); error_message is None (<<>>) or a string
classify_error(error_message) ==
    LET msg == IF error_message = None \/ error_message = Some("")
               THEN "Unknown error occurred" ELSE error_message[1]
        k == FirstPattern(Lower(msg))
    IN  IF k # 0
        THEN [user_message |-> ERROR_PATTERNS[k].user,
              technical_message |-> msg,
              status |-> ERROR_PATTERNS[k].status]
        ELSE [user_message |-> GenericUserMessage,
              technical_message |-> msg,
              status |-> "FAILED"]

\* urllib.parse.urlparse, as is_valid_url and check_domain_exists use it:
\* [ok |-> TRUE, scheme, netloc], or [ok |-> FALSE, error] for the ValueError it raises
HexDigitsAndSeparators == Chars("0123456789abcdefABCDEF:.")
SchemeChars ==
    Chars("abcdefghijklmnopqrstuvwxyz") \cup Chars("ABCDEFGHIJKLMNOPQRSTUVWXYZ")
        \cup Chars("0123456789+-.")

\* index of the colon that ends the scheme of u, 0 when u starts with no scheme
scheme_end(u) ==
    IF /\ FirstOf(u, {":"}) <= Len(u)
       /\ FirstOf(u, {":"}) > 1
       /\ Chars(SubSeq(u, 1, FirstOf(u, {":"}) - 1)) \subseteq SchemeChars
       /\ SubSeq(u, 1, 1) \notin Chars("0123456789+-.")
    THEN FirstOf(u, {":"})
    ELSE 0

\* the netloc of what follows the scheme
netloc_of(rest) ==
    IF StartsWith(rest, "//")
    THEN SubSeq(rest, 3, FirstOf(SubSeq(rest, 3, Len(rest)), {"/", "?", "#"}) + 1)
    ELSE ""

\* the bracket checks urlsplit makes on the netloc
bracket_check(scheme, netloc, bracketed) ==
    IF Contains(netloc, "[") # Contains(netloc, "]")
    THEN [ok |-> FALSE, error |-> "Invalid IPv6 URL"]
    ELSE IF /\ Contains(netloc, "[")
            /\ ~(bracketed # "" /\ Chars(bracketed) \subseteq HexDigitsAndSeparators)
    THEN [ok |-> FALSE,
          error |-> "'" \o bracketed \o "' does not appear to be an IPv4 or IPv6 address"]
    ELSE [ok |-> TRUE, scheme |-> scheme, netloc |-> netloc]

split_netloc(scheme, netloc) ==
    bracket_check(scheme, netloc,
                  SubSeq(netloc, FirstOf(netloc, {"["}) + 1, FirstOf(netloc, {"]"}) - 1))

split_scheme(u, colon) ==
    IF colon > 0
    THEN split_netloc(Lower(SubSeq(u, 1, colon - 1)), netloc_of(SubSeq(u, colon + 1, Len(u))))
    ELSE split_netloc("", netloc_of(u))

urlparse(u) == split_scheme(u, scheme_end(u))

HostnameChars ==
    Chars("abcdefghijklmnopqrstuvwxyz") \cup Chars("ABCDEFGHIJKLMNOPQRSTUVWXYZ")
        \cup Chars("0123456789.-")

\* parsed.netloc.split(":")[0]
host_part(netloc) == SubSeq(netloc, 1, FirstOf(netloc, {":"}) - 1)

\* lines 223-244 of is_valid_url, on the parsed url
url_checks(parsed, hostname) ==
    IF parsed.scheme \notin {"http", "https"}
    THEN <<FALSE, "URL must use http:// or https://">>
    ELSE IF parsed.netloc = "" THEN <<FALSE, "URL must include a domain name">>
    ELSE IF Contains(parsed.netloc, " ") THEN <<FALSE, "URL contains invalid characters">>
    ELSE IF hostname = "" \/ ~(Chars(hostname) \subseteq HostnameChars)
    THEN <<FALSE, "Invalid domain name format">>
    ELSE IF ~Contains(hostname, ".") \/ StartsWith(hostname, ".") \/ EndsWith(hostname, ".")
    THEN <<FALSE, "Invalid domain name format">>
    ELSE <<TRUE, "">>

\* lines 220-247 of is_valid_url: the try block and its handler
url_verdict(parsed) ==
    IF ~parsed.ok THEN <<FALSE, "Invalid URL format: " \o parsed.error>>
    ELSE url_checks(parsed, host_part(parsed.netloc))

\* lines 214-218 of is_valid_url: the url stripped, with http:// put before a bare one
with_protocol(s) ==
    IF StartsWith(s, "http://") \/ StartsWith(s, "https://") THEN s ELSE "http://" \o s

\* is_valid_url(url): <<is_valid, error_message>>
is_valid_url(u) ==
    IF u = "" THEN <<FALSE, "URL cannot be empty">>
    ELSE url_verdict(urlparse(with_protocol(Strip(u))))

\* What the resolver and the socket fallback answer for a host name
DnsAnswers == {"A", "NXDOMAIN", "NoAnswer", "Timeout", "Error"}
SocketAnswers == {"address", "gaierror"}

\* lines 261-289 of check_domain_exists, for the host name
resolve(hostname, dns, sock) ==
    CASE dns = "A" -> <<TRUE, "">>
      [] dns = "NXDOMAIN" -> <<FALSE, "Domain '" \o hostname \o "' does not exist">>
      [] dns = "NoAnswer" -> <<FALSE, "Domain '" \o hostname \o "' has no IP address">>
      [] dns = "Timeout" ->
            IF sock = "address" THEN <<TRUE, "">>
            ELSE <<FALSE, "DNS lookup timeout for '" \o hostname \o "'">>
      [] dns = "Error" ->
            IF sock = "address" THEN <<TRUE, "">>
            ELSE <<FALSE, "Domain '" \o hostname \o "' cannot be resolved">>

domain_verdict(parsed, dns, sock) ==
    IF ~parsed.ok THEN <<FALSE, "Domain validation error: " \o parsed.error>>
    ELSE resolve(host_part(parsed.netloc), dns, sock)

\* check_domain_exists(url) under the answers dns and sock: <<exists, error_message>>
check_domain_exists(u, dns, sock) == domain_verdict(urlparse(u), dns, sock)

\* What pandas.read_json does with the crawl file: it parses it, or raises the given text
ReadOutcomes == {None, Some("[Errno 12] Cannot allocate memory")}

\* Files the crawler can leave behind.  A table is a sequence of page records.
EmptyFile == [kind |-> "empty"]
CorruptFile == [kind |-> "corrupt"]
TableFile(rows) == [kind |-> "table", rows |-> rows]

\* the column col exists in the frame: some record carries the key
HasColumn(rows, col) == \E k \in 1..Len(rows) : rows[k][col] # None

\* validate_crawl_output(output_file), file = None when the path does not exist:
\* <<is_valid, error_message>>
validate_crawl_output(file, read) ==
    IF file = None THEN <<FALSE, "Crawl output file not found">>
    ELSE IF file[1].kind = "empty" THEN <<FALSE, "Crawl output file is empty">>
    ELSE IF read # None THEN <<FALSE, "Crawl output file is corrupted: " \o read[1]>>
    ELSE IF file[1].kind = "corrupt"
    THEN <<FALSE, "Crawl output file is corrupted: Expected object or value">>
    ELSE IF Len(file[1].rows) = 0 THEN <<FALSE, "Crawl produced no results">>
    ELSE IF ~HasColumn(file[1].rows, "url")
    THEN <<FALSE, "Crawl output missing required columns: ['url']">>
    ELSE <<TRUE, "">>

----------------------------------------------------------------------------
(* is_likely_false_positive, app/tasks/orchestrator.py *)

\* lines 1532-1562 (the patterns; the reasons are only logged)
auth_patterns == <<
    "/auth/", "/login/", "/signin/", "/logout/", "/dashboard/", "/profile/",
    "/account/", "/membership/", "/admin/", "/user/", "/my-", "/settings/",
    "/api/user", "/api/auth", "/api/account", "/api/profile", "/api/dashboard",
    "sessionid=", "token=", "auth_token=", "access_token=", "oauth", "sso/", "saml/",
    "jwt/"
>>

\* lines 1570-1583 (the patterns; the reasons are only logged)
auth_subdomains == <<
    "account.", "auth.", "login.", "sso.", "admin.", "dashboard.", "portal.", "app.",
    "my.", "user.", "member.", "secure."
>>

\* lines 1600-1611 (the patterns; the reasons are only logged)
social_media_indicators == <<
    "facebook.com", "twitter.com", "x.com", "instagram.com", "linkedin.com",
    "tiktok.com", "youtube.com/user/", "github.com/settings", "pinterest.com",
    "snapchat.com"
>>

\* lines 1618-1635 (the patterns; the reasons are only logged)
marketing_tracking_patterns == <<
    "attn.tv", "doubleclick.net", "googlesyndication.com", "googletagmanager.com",
    "googleadservices.com", "facebook.com/tr", "analytics.google.com",
    "google-analytics.com", "amplitude.com", "mixpanel.com", "segment.com",
    "hotjar.com", "zendesk.com/embeddable", "intercom.io", ".tracking.", ".analytics."
>>

\* lines 1642-1655 (the patterns; the reasons are only logged)
partner_redirect_patterns == <<
    "/go/", "/redirect/", "/r/", "/link/", "/out/", "/track/", "/click/", "hp.com/go/",
    "hp.com/support/", "adobe.com/go/", "microsoft.com/en-us/p/", "amazon.com/dp/"
>>

\* lines 1662-1672 (the patterns; the reasons are only logged)
subsidiary_enterprise_patterns == <<
    "dacor.com", "harman.com", "joyent.com", "smartthings.com", "viv.ai",
    ".enterprise.", ".corp.", ".internal.", ".intranet."
>>

\* lines 1679-1689 (the patterns; the reasons are only logged)
cdn_asset_patterns == <<
    ".cloudfront.net", ".fastly.com", ".jsdelivr.net", ".unpkg.com",
    ".bootstrapcdn.com", "assets.", "static.", "cdn.", "media."
>>

AnyIn(patterns, s) == \E k \in 1..Len(patterns) : Contains(s, patterns[k])

\* urlparse(u).hostname: the netloc without user info and port, lower-cased
hostname_of(netloc) ==
    LET at == {i \in 1..Len(netloc) : SubSeq(netloc, i, i) = "@"}
        host_port == IF at = {} THEN netloc
                     ELSE SubSeq(netloc, (CHOOSE i \in at : \A j \in at : j <= i) + 1, Len(netloc))
    IN  Lower(SubSeq(host_port, 1, FirstOf(host_port, {":"}) - 1))

\* lines 1586-1597: the host name of the url starts with an authentication subdomain
auth_subdomain(parsed) ==
    /\ parsed.ok
    /\ \E k \in 1..Len(auth_subdomains) :
          StartsWith(hostname_of(parsed.netloc), auth_subdomains[k])

\* the pattern families of is_likely_false_positive, tried on the lower-cased url
known_false_positive(url_lower) ==
    \/ AnyIn(auth_patterns, url_lower)
    \/ auth_subdomain(urlparse(url_lower))
    \/ AnyIn(social_media_indicators, url_lower)
    \/ AnyIn(marketing_tracking_patterns, url_lower)
    \/ AnyIn(partner_redirect_patterns, url_lower)
    \/ AnyIn(subsidiary_enterprise_patterns, url_lower)
    \/ AnyIn(cdn_asset_patterns, url_lower)

\* A filter that looks at the url only (used to test UnreachableNeverSuppressed)
suppress_any_status(u, status) == known_false_positive(Lower(u))

\* A filter that suppresses nothing (used to test ClientErrorSuppression)
suppress_nothing(u, status) == FALSE

\* is_likely_false_positive(url, status)[0]; status is an integer
is_likely_false_positive(u, status) ==
    IF status = -1 THEN FALSE
    ELSE IF status < 400 \/ status >= 500 THEN FALSE
    ELSE known_false_positive(Lower(u))

\* A ladder without the branch of the server errors (used to test TreatedIdentically)
internal_bucket_without_5xx(status) ==
    IF status = -1 THEN "internal_unreachable_links"
    ELSE IF status \in {404, 410} THEN "internal_broken_links"
    ELSE IF status = 403 THEN "internal_permission_issue_links"
    ELSE IF status = 405 THEN "internal_method_issue_links"
    ELSE IF 400 <= status /\ status < 500 THEN "internal_other_client_errors"
    ELSE ""

\* the if/elif ladder that files an internal link (lines 631-643); "" when no branch takes it
internal_bucket(status) ==
    IF status = -1 THEN "internal_unreachable_links"
    ELSE IF status \in {404, 410} THEN "internal_broken_links"
    ELSE IF status = 403 THEN "internal_permission_issue_links"
    ELSE IF status = 405 THEN "internal_method_issue_links"
    ELSE IF 400 <= status /\ status < 500 THEN "internal_other_client_errors"
    ELSE IF 500 <= status /\ status < 600 THEN "internal_broken_links"
    ELSE ""

\* the if/elif ladder that files an external link (lines 1911-1925)
external_bucket(status) ==
    IF status = -1 THEN "unreachable_links"
    ELSE IF status \in {404, 410} THEN "broken_links"
    ELSE IF status = 403 THEN "permission_issues"
    ELSE IF status = 405 THEN "method_issues"
    ELSE IF 400 <= status /\ status < 500 THEN "other_client_errors"
    ELSE IF 500 <= status /\ status < 600 THEN "broken_links"
    ELSE ""

----------------------------------------------------------------------------
(* compile_report_from_crawl: the crawl-result interpreter *)

\* A page record of the crawl file.  h1 is None, a "@@"-joined string, a native list,
\* or a number (pandas.read_json turns a column of digit strings into numbers).
Page(u, status, title, meta_desc, h1, referer, links) ==
    [url |-> u, status |-> status, title |-> title, meta_desc |-> meta_desc,
     h1 |-> h1, referer |-> referer, links |-> links]
H1Str(s) == Some([kind |-> "str", text |-> s])
H1List(items) == Some([kind |-> "list", items |-> items])
H1Number(n) == Some([kind |-> "number", text |-> ToString(n), zero |-> n = 0])

Map(f(_), s) == [k \in 1..Len(s) |-> f(s[k])]

\* list(dict.fromkeys(s)): s without repeats, first occurrences kept in order
RECURSIVE Dedup(_)
Dedup(s) ==
    IF s = <<>> THEN <<>>
    ELSE LET init == Dedup(SubSeq(s, 1, Len(s) - 1))
             last == s[Len(s)]
         IN  IF \E k \in 1..Len(init) : init[k] = last THEN init ELSE Append(init, last)

\* lines 443-463: the title check of one page
title_check(row) ==
    IF row.title # None /\ row.title[1] # ""
    THEN [status |-> "SUCCESS", check |-> "title", value |-> Some(Strip(row.title[1])),
          message |-> "Title found."]
    ELSE [status |-> "FAILURE", check |-> "title", value |-> None,
          message |-> "Title tag not found or is empty."]

\* lines 465-485: the meta description check of one page
meta_description_check(row) ==
    IF row.meta_desc # None /\ row.meta_desc[1] # ""
    THEN [status |-> "SUCCESS", check |-> "meta_description",
          value |-> Some(Strip(row.meta_desc[1])), message |-> "Meta description found."]
    ELSE [status |-> "FAILURE", check |-> "meta_description", value |-> None,
          message |-> "Meta description not found or is empty."]

\* lines 487-547, outcome of the H1 branch of one page: "none", "one", "multiple",
\* or "raise" (pd.isna of a list of two or more is an array, whose truth value is a ValueError)
h1_kind(row) ==
    IF row.h1 = None THEN "none"
    ELSE IF row.h1[1].kind = "list"
    THEN IF Len(row.h1[1].items) = 0 THEN "none"
         ELSE IF Len(row.h1[1].items) = 1 THEN "one"
         ELSE "raise"
    ELSE IF row.h1[1].kind = "number" THEN (IF row.h1[1].zero THEN "none" ELSE "one")
    ELSE IF row.h1[1].text # "" THEN "one" ELSE "none"

h1_check(row) ==
    CASE h1_kind(row) = "one" ->
            [status |-> "SUCCESS", check |-> "h1_heading",
             message |-> "Exactly one H1 tag found.", count |-> 1,
             value |-> [kind |-> "str",
                        text |-> IF row.h1[1].kind = "list" THEN row.h1[1].items[1]
                                 ELSE row.h1[1].text]]
      [] OTHER ->
            [status |-> "FAILURE", check |-> "h1_heading", message |-> "No H1 tag found.",
             count |-> 0, value |-> [kind |-> "list", items |-> <<>>]]

ArrayTruthError ==
    "The truth value of an array with more than one element is ambiguous. Use a.any() or a.all()"

\* rows the page loop handles (line 439: a page without url is skipped)
page_rows(rows) == SelectSeq(rows, LAMBDA r : r.url # None /\ r.url[1] # "")

\* the page loop raises on some page
page_loop_raises(rows) ==
    \E k \in 1..Len(rows) : rows[k].url # None /\ rows[k].url[1] # "" /\ h1_kind(rows[k]) = "raise"

\* lines 428-549: the page-level loop
page_level(rows) ==
    LET pages == page_rows(rows)
        urls == {pages[k].url[1] : k \in 1..Len(pages)}
        last(u) == CHOOSE k \in 1..Len(pages) :
                      /\ pages[k].url[1] = u
                      /\ \A j \in 1..Len(pages) : pages[j].url[1] = u => j <= k
    IN  [page_level_report |->
            [u \in urls |-> <<title_check(pages[last(u)]),
                              meta_description_check(pages[last(u)]),
                              h1_check(pages[last(u)])>>],
         pages_with_title |-> Cardinality({k \in 1..Len(pages) : title_check(pages[k]).status = "SUCCESS"}),
         pages_with_meta_desc |->
            Cardinality({k \in 1..Len(pages) : meta_description_check(pages[k]).status = "SUCCESS"}),
         pages_with_one_h1 |-> Cardinality({k \in 1..Len(pages) : h1_kind(pages[k]) = "one"}),
         pages_with_multiple_h1s |-> Cardinality({k \in 1..Len(pages) : h1_kind(pages[k]) = "multiple"}),
         pages_with_no_h1 |-> Cardinality({k \in 1..Len(pages) : h1_kind(pages[k]) = "none"})]

InternalBuckets ==
    {"internal_unreachable_links", "internal_broken_links", "internal_permission_issue_links",
     "internal_method_issue_links", "internal_other_client_errors"}

\* lines 591-603: the referrers of an error url, "Internal Navigation" for a missing one
internal_sources(error_rows, u) ==
    Dedup(Map(LAMBDA r : IF r.referer = None THEN "Internal Navigation" ELSE r.referer[1],
              SelectSeq(error_rows, LAMBDA r : r.url[1] = u)))

\* lines 572-679: the five internal buckets
internal_links(rows) ==
    IF HasColumn(rows, "status")
    THEN LET error_rows == SelectSeq(rows, LAMBDA r : r.status # None /\ r.status[1] >= 400)
             kept == SelectSeq(error_rows,
                        LAMBDA r : ~is_likely_false_positive(r.url[1], r.status[1]))
             link_info(r) ==
                [url |-> r.url[1], status |-> r.status[1],
                 source_urls |-> IF HasColumn(rows, "referer")
                                 THEN internal_sources(error_rows, r.url[1])
                                 ELSE <<"Internal Navigation">>]
         IN  [b \in InternalBuckets |->
                Map(link_info, SelectSeq(kept, LAMBDA r : internal_bucket(r.status[1]) = b))]
    ELSE LET dead == SelectSeq(rows,
                        LAMBDA r : r.title = None /\ r.meta_desc = None /\ r.h1 = None)
         IN  [b \in InternalBuckets |->
                IF b = "internal_unreachable_links"
                THEN Map(LAMBDA r : [url |-> r.url[1], status |-> "Unreachable",
                                     source_urls |-> <<"Timeout/Error">>], dead)
                ELSE <<>>]

\* _get_top_words(crawl_df[col]): series.dropna().str.cat(sep=" ") raises a TypeError
\* on a list and .str an AttributeError on a column of numbers; otherwise the result is
\* taken from the lower-cased text of the column
top_words_raises(rows, col) ==
    col = "h1" /\ \E k \in 1..Len(rows) :
                    rows[k].h1 # None /\ rows[k].h1[1].kind \in {"list", "number"}

RECURSIVE JoinText(_, _)
JoinText(rows, col) ==
    IF rows = <<>> THEN ""
    ELSE LET r == Head(rows)
             text == IF col = "h1" THEN r.h1[1].text ELSE r[col][1]
             rest == JoinText(Tail(rows), col)
         IN  IF r[col] = None THEN rest
             ELSE IF rest = "" THEN Lower(text) ELSE Lower(text) \o " " \o rest

top_words(rows, col) == IF HasColumn(rows, col) THEN JoinText(rows, col) ELSE ""

\* the external links of the pages, each with the page it was found on:
\* adv.crawlytics.links marks a link internal when internal_url_regex is found in it
RECURSIVE page_links(_, _)
page_links(rows, main_domain) ==
    IF rows = <<>> THEN <<>>
    ELSE Map(LAMBDA l : [link |-> l, source_url |-> Head(rows).url[1]],
             SelectSeq(Head(rows).links, LAMBDA l : ~Contains(l, main_domain)))
         \o page_links(Tail(rows), main_domain)

\* lines 681-719: links_to_check; parsed is urlparse(audit.url), whose ValueError
\* the handler of line 714 swallows
external_links_of(rows, parsed) ==
    IF ~parsed.ok THEN <<>> ELSE page_links(rows, parsed.netloc)

links_to_check_of(rows, audit_url) == external_links_of(rows, urlparse(audit_url))

\* lines 721-754: initial_report, from the page-level loop's result p and the internal
\* buckets i
report_of(rows, p, i, total_pages) ==
    [status |-> "ANALYZING_EXTERNAL",
     audit_id |-> 1,
     summary |->
        [total_pages_analyzed |-> total_pages,
         internal_unreachable_links_found |-> Len(i["internal_unreachable_links"]),
         internal_broken_links_found |-> Len(i["internal_broken_links"]),
         internal_permission_issues_found |-> Len(i["internal_permission_issue_links"]),
         internal_method_issues_found |-> Len(i["internal_method_issue_links"]),
         internal_other_client_errors_found |-> Len(i["internal_other_client_errors"]),
         pages_missing_title |-> total_pages - p.pages_with_title,
         pages_missing_meta_description |-> total_pages - p.pages_with_meta_desc,
         pages_with_correct_h1 |-> p.pages_with_one_h1,
         pages_with_multiple_h1s |-> p.pages_with_multiple_h1s,
         pages_with_no_h1 |-> p.pages_with_no_h1,
         top_10_title_words |-> top_words(rows, "title"),
         top_10_h1_words |-> top_words(rows, "h1")],
     internal_unreachable_links |-> i["internal_unreachable_links"],
     internal_broken_links |-> i["internal_broken_links"],
     internal_permission_issue_links |-> i["internal_permission_issue_links"],
     internal_method_issue_links |-> i["internal_method_issue_links"],
     internal_other_client_errors |-> i["internal_other_client_errors"],
     page_level_report |-> p.page_level_report]

initial_report(rows) ==
    report_of(rows, page_level(rows), internal_links(rows),
              Cardinality(DOMAIN page_level(rows).page_level_report))

----------------------------------------------------------------------------
(* The external-link verification engine *)

MAX_EXTERNAL_LINKS == 100
MaxChunkSize == 20

\* urlparse(url).netloc, "unknown" for a url urlparse rejects (lines 1139-1145)
netloc_or_unknown(parsed) == IF parsed.ok THEN parsed.netloc ELSE "unknown"
domain_of(u) == netloc_or_unknown(urlparse(u))

RECURSIVE Flatten(_)
Flatten(ss) == IF ss = <<>> THEN <<>> ELSE Head(ss) \o Flatten(Tail(ss))

\* Chunks left as long as the distribution made them (used to test ChunkingIsPartition)
unsplit(chunk, max_chunk_size) == IF chunk # <<>> THEN <<chunk>> ELSE <<>>

RECURSIVE SplitChunk(_, _)
SplitChunk(chunk, max_chunk_size) ==
    IF Len(chunk) > max_chunk_size
    THEN <<SubSeq(chunk, 1, max_chunk_size)>>
            \o SplitChunk(SubSeq(chunk, max_chunk_size + 1, Len(chunk)), max_chunk_size)
    ELSE IF chunk # <<>> THEN <<chunk>> ELSE <<>>

Max(S) == CHOOSE x \in S : \A y \in S : y <= x
Min2(a, b) == IF a <= b THEN a ELSE b

\* domain_groups[d]: the urls of domain d, in order
domain_urls(urls, d) == SelectSeq(urls, LAMBDA u : domain_of(u) = d)

\* A distribution that fills one chunk after the other (used to test DomainsAreSpread)
share_in_blocks(du, c, max_chunk_size, i) ==
    SubSeq(du, c * max_chunk_size + 1, Min2(Len(du), (c + 1) * max_chunk_size))

\* the urls of one domain that land in chunk c (from 0): those at index i (from 0)
\* with i % max_chunk_size = c
RECURSIVE share(_, _, _, _)
share(du, c, max_chunk_size, i) ==
    IF i > Len(du) THEN <<>>
    ELSE (IF (i - 1) % max_chunk_size = c THEN <<du[i]>> ELSE <<>>)
            \o share(du, c, max_chunk_size, i + 1)

\* lines 1150-1171, domains being the domains of urls in order of first appearance
spread(urls, domains, max_chunk_size) ==
    LET n_chunks == IF urls = <<>> THEN 0
                    ELSE Min2(max_chunk_size,
                              Max({Len(domain_urls(urls, domains[k])) : k \in 1..Len(domains)}))
        chunk(c) == Flatten([k \in 1..Len(domains) |->
                                share(domain_urls(urls, domains[k]), c, max_chunk_size, 1)])
    IN  Flatten([c \in 1..n_chunks |-> SplitChunk(chunk(c - 1), max_chunk_size)])

\* chunk_urls_by_domain(urls, max_chunk_size)
chunk_urls_by_domain(urls, max_chunk_size) ==
    spread(urls, Dedup(Map(domain_of, urls)), max_chunk_size)

\* A mapping that keeps the first page only (used to test SourcesAreReferringPages)
first_source_only(links_to_check, u) ==
    <<SelectSeq(links_to_check, LAMBDA l : l.link = u)[1].source_url>>

\* lines 818-833: url_to_source_mapping[u], every page that links to u, each once
url_sources(links_to_check, u) ==
    Dedup(Map(LAMBDA l : l.source_url, SelectSeq(links_to_check, LAMBDA l : l.link = u)))

unique_urls(links_to_check) == Dedup(Map(LAMBDA l : l.link, links_to_check))

\* A chunk that keeps what HEAD recorded (used to test FallbackSupersedes)
head_rows_only(urls, head, get) ==
    [k \in 1..Len(urls) |-> [url |-> urls[k], status |-> head[urls[k]], method_used |-> None]]

\* line 1358: a 4xx or an unreachable url goes to the GET fallback
needs_fallback(status) == (400 <= status /\ status < 500) \/ status = -1

\* run_advertools_chunk(urls, output_file): the rows written to the chunk's output file.
\* head[u] is the status adv.crawl_headers recorded for u (None: a record without
\* status), get[u] the status of the GET fallback (-1: the request failed)

run_advertools_chunk(urls, head, get) ==
    LET has_status == \E k \in 1..Len(urls) : head[urls[k]] # None
        \* row.get("status", -1)
        seen(u) == IF has_status THEN head[u] ELSE Some(-1)
        falls_back(u) == seen(u) # None /\ needs_fallback(seen(u)[1])
        fallback_urls == SelectSeq(urls, falls_back)
        kept == SelectSeq(urls, LAMBDA u : ~falls_back(u))
    IN  Map(LAMBDA u : [url |-> u, status |-> head[u], method_used |-> None], kept)
          \o Map(LAMBDA u : [url |-> u, status |-> Some(get[u]),
                             method_used |-> Some("GET_FALLBACK")], fallback_urls)

ExternalBuckets ==
    {"unreachable_links", "broken_links", "permission_issues", "method_issues",
     "other_client_errors"}

\* lines 1848-1925: the findings of one chunk file, per bucket
chunk_findings(rows, links_to_check) ==
    LET filled == Map(LAMBDA r : [r EXCEPT !.status = IF @ = None THEN -1 ELSE @[1]], rows)
        error_headers == SelectSeq(filled, LAMBDA r : ~(200 <= r.status /\ r.status <= 399))
        reported == SelectSeq(error_headers, LAMBDA r : ~is_likely_false_positive(r.url, r.status))
        link_info(r) ==
            [url |-> r.url,
             status |-> IF r.status = -1 THEN "Unreachable" ELSE r.status,
             source_urls |-> IF url_sources(links_to_check, r.url) # <<>>
                             THEN url_sources(links_to_check, r.url)
                             ELSE <<"External Link Check">>]
    IN  IF rows = <<>> THEN [b \in ExternalBuckets |-> <<>>]
        ELSE [b \in ExternalBuckets |->
                Map(link_info, SelectSeq(reported, LAMBDA r : external_bucket(r.status) = b))]

\* What becomes of a chunk: its worker returns success, returns failure, or times out
ChunkOutcomes == {"success", "failure", "timeout"}

\* A merge that stops at the first chunk that did not succeed (used to test
\* FailedChunkIsolated)
merge_until_failure(chunks, links_to_check, head, get, outcome, overall_timeout) ==
    LET reached(c) == \A b \in 1..c : outcome[b] = "success"
        found(c) ==
            IF ~overall_timeout /\ reached(c)
            THEN chunk_findings(run_advertools_chunk(chunks[c], head, get), links_to_check)
            ELSE [b \in ExternalBuckets |-> <<>>]
    IN  [b \in ExternalBuckets |-> Flatten([c \in 1..Len(chunks) |-> found(c)[b]])]

\* lines 1829-1938: the merge of the chunks' findings.
\* outcome[c] is what becomes of chunk c, overall_timeout whether the 600 s ceiling fires
merge_chunks(chunks, links_to_check, head, get, outcome, overall_timeout) ==
    LET found(c) ==
            IF ~overall_timeout /\ outcome[c] = "success"
            THEN chunk_findings(run_advertools_chunk(chunks[c], head, get), links_to_check)
            ELSE [b \in ExternalBuckets |-> <<>>]
    IN  [b \in ExternalBuckets |-> Flatten([c \in 1..Len(chunks) |-> found(c)[b]])]

\* An engine that keeps every url (used to test ProbesAreCapped)
every_url(all) == all

\* the urls the engine probes (lines 1715-1723) and the chunks it makes of them
first_urls(all) == SubSeq(all, 1, Min2(Len(all), MAX_EXTERNAL_LINKS))
probed_urls(links_to_check) == first_urls(unique_urls(links_to_check))
chunks_of(links_to_check) == chunk_urls_by_domain(probed_urls(links_to_check), MaxChunkSize)

\* check_external_links_async(urls, audit_id, url_to_source_mapping)
check_external_links_async(links_to_check, head, get, outcome, overall_timeout) ==
    merge_chunks(chunks_of(links_to_check), links_to_check, head, get, outcome,
                 overall_timeout)

----------------------------------------------------------------------------
(* Bounded inputs *)

\* The url a run is started with
Urls == {"http://a.co", "a.co", "ftp://a.co", "http://a b.co", "http://[::1",
         "http://[http 500]"}

\* Texts of the exceptions the crawler raises
CrawlErrors == {"", "Connection refused", "Spider closed"}

ExtA == "http://ext.io/a"
ExtLogin == "http://ext.io/login/"

\* A site of three pages, one of them gone, with two external links
SiteTable ==
    <<Page(Some("http://a.co/"), Some(200), Some("Home "), Some("About a"), H1Str("Home"),
           None, <<"http://a.co/old", ExtA, ExtLogin>>),
      Page(Some("http://a.co/about"), Some(200), Some(""), None, H1Str("A@@B"),
           Some("http://a.co/"), <<ExtA>>),
      Page(Some("http://a.co/old"), Some(404), None, None, None,
           Some("http://a.co/"), <<>>)>>

\* One page whose h1 is a native list of one heading
ListTable ==
    <<Page(Some("http://a.co/"), Some(200), Some("Home"), None, H1List(<<"Welcome">>),
           None, <<>>)>>

\* One page whose h1 is a native list of two headings
TwoH1Table ==
    <<Page(Some("http://a.co/"), Some(200), Some("Home"), None, H1List(<<"One", "Two">>),
           None, <<ExtA>>)>>

\* One page whose only heading is a number
NumberTable ==
    <<Page(Some("http://a.co/"), Some(200), Some("Not found"), None, H1Number(404),
           None, <<>>)>>

\* A site that answered nothing: no status column
DeadTable == <<Page(Some("http://a.co/"), None, None, None, None, None, <<>>)>>

CrawlTables == {SiteTable, ListTable, TwoH1Table, NumberTable, DeadTable}

\* What the HEAD probe records for a url (None: a record without status) and what
\* the GET fallback returns (-1: the request failed)
HeadStatuses == {Some(200), Some(404), Some(500), None}
GetStatuses == {200, 404, -1}

----------------------------------------------------------------------------
(* app/models/audit.py and the chain of app/tasks/orchestrator.py *)

EmptyDict == <<>>

\* dict.get(key, default)
Get(d, key, default) == IF key \in DOMAIN d THEN d[key] ELSE default

\* Audit(url=..., status="PENDING") as main.py creates it
NewAudit ==
    [status |-> "PENDING", error_message |-> None, technical_error |-> None,
     report_json |-> None, completed_at |-> None]

NoHistory ==
    [ran |-> <<>>, returned |-> <<>>, raised |-> <<>>, crawl_started |-> FALSE,
     mark_calls |-> 0, mark_writes |-> 0, mark_skips |-> 0,
     checkpoint |-> None, completed |-> None, probes |-> None,
     enqueue_failed |-> FALSE, deliveries |-> 0, attempt |-> None]

Init ==
    /\ url \in Urls
    /\ settings \in [callback_url : BOOLEAN, api_key : BOOLEAN]
    /\ audit = NewAudit
    /\ pc = "crawl"
    /\ running = ""
    /\ marks = <<>>
    /\ crawl_file = None
    /\ chain_arg = None
    /\ queue = <<>>
    /\ clock = 1
    /\ hist = NoHistory
    /\ engine = None

\* run_full_audit: the chain of the four stages
Stages == <<"crawl", "compile", "check", "save">>

StageIndex(stage) == CHOOSE k \in 1..Len(Stages) : Stages[k] = stage

\* A chain that went on after a raised stage (used to test StagesRunInChainOrder)
link_through_failure(stage, raised) ==
    IF StageIndex(stage) < Len(Stages) THEN Stages[StageIndex(stage) + 1] ELSE "done"

\* A chain that check_external_links ends (used to test VerificationBestEffort)
link_ends_at_check(stage, raised) ==
    IF raised \/ stage = "check" THEN "aborted"
    ELSE IF StageIndex(stage) < Len(Stages) THEN Stages[StageIndex(stage) + 1]
    ELSE "done"

\* What the chain does when a stage ends: a raised stage ends the chain, a returned
\* one hands its value to the next stage
link(stage, raised) ==
    IF raised THEN "aborted"
    ELSE IF StageIndex(stage) < Len(Stages) THEN Stages[StageIndex(stage) + 1]
    ELSE "done"

\* bookkeeping of a stage that starts, returns a value, raises
started(h, stage) == [h EXCEPT !.ran = Append(@, [stage |-> stage, arg |-> chain_arg])]
returned(h, stage, value) ==
    [h EXCEPT !.returned = Append(@, [stage |-> stage, value |-> value])]
raised(h, stage) == [h EXCEPT !.raised = Append(@, stage)]

\* A guard that takes no status for final (used to test MarkIdempotentOnTerminal)
never_final(status) == FALSE

\* _mark_audit_failed's guard: the audit is already in a final state
already_final(status) == status \in {"FAILED", "COMPLETE"}

\* settings.DASHBOARD_CALLBACK_URL is set
callback_configured == settings.callback_url

\* send_report_to_dashboard.delay(audit_id): the new task, as the broker holds it.
\* The message carries the audit's id only; audit_when_queued is bookkeeping, the row a
\* as it is at the call.
new_delivery(a) == [retries |-> 0, countdown |-> 0, audit_when_queued |-> a]

\* the fields _mark_audit_failed writes (lines 219-223)
failure_write(a, error_info, now) ==
    [a EXCEPT !.status = error_info.status,
              !.error_message = Some(error_info.user_message),
              !.technical_error = Some(error_info.technical_message),
              !.report_json = Some(EmptyDict),
              !.completed_at = Some(now)]

\* _mark_audit_failed(audit_id, error_message, url): one call, for the head of marks.
\* enqueue_ok: the broker accepts the delivery task (.delay returns)
mark_audit_failed ==
    /\ pc = "failing"
    /\ marks # <<>>
    /\ \E enqueue_ok \in BOOLEAN :
        LET error_info == classify_error(Some(Head(marks)))
        IN  IF ~already_final(audit.status)
            THEN /\ audit' = failure_write(audit, error_info, clock)
                 /\ clock' = clock + 1
                 /\ queue' = IF callback_configured /\ enqueue_ok
                             THEN Append(queue, new_delivery(failure_write(audit, error_info,
                                                                           clock)))
                             ELSE queue
                 /\ hist' = [IF Tail(marks) = <<>> THEN raised(hist, running) ELSE hist
                                EXCEPT !.mark_calls = @ + 1, !.mark_writes = @ + 1]
            ELSE /\ UNCHANGED <<audit, clock, queue>>
                 /\ hist' = [IF Tail(marks) = <<>> THEN raised(hist, running) ELSE hist
                                EXCEPT !.mark_calls = @ + 1, !.mark_skips = @ + 1]
    /\ marks' = Tail(marks)
    /\ pc' = IF Tail(marks) = <<>> THEN link(running, TRUE) ELSE "failing"
    /\ UNCHANGED <<url, settings, engine, running, crawl_file, chain_arg>>

\* What adv.crawl does: it raises, or it returns leaving a file (or none) behind
CrawlOutcomes ==
    {[kind |-> "raise", text |-> t] : t \in CrawlErrors}
      \cup {[kind |-> "file", file |-> f] :
                f \in {None, Some(EmptyFile), Some(CorruptFile)}
                        \cup {Some(TableFile(t)) : t \in CrawlTables}}

CrawlOutputFile == "results/audit_results_1.jl"

\* run_advertools_crawl(audit_id, url, max_pages)
run_advertools_crawl ==
    /\ pc = "crawl"
    /\ running' = "crawl"
    /\ \E dns \in DnsAnswers, sock \in SocketAnswers, crawl \in CrawlOutcomes, read \in ReadOutcomes :
        LET url_check == is_valid_url(url)
            domain_check == check_domain_exists(url, dns, sock)
            output_check == validate_crawl_output(crawl.file, read)
            begun == started(hist, "crawl")
        IN  IF ~url_check[1]
            THEN /\ marks' = <<"Invalid URL format: " \o url_check[2]>>
                 /\ pc' = "failing"
                 /\ hist' = begun
                 /\ UNCHANGED <<crawl_file, chain_arg>>
            ELSE IF ~domain_check[1]
            THEN /\ marks' = <<"Domain validation failed: " \o domain_check[2]>>
                 /\ pc' = "failing"
                 /\ hist' = begun
                 /\ UNCHANGED <<crawl_file, chain_arg>>
            ELSE IF crawl.kind = "raise"
            THEN /\ marks' = <<crawl.text>>
                 /\ pc' = "failing"
                 /\ crawl_file' = None
                 /\ hist' = [begun EXCEPT !.crawl_started = TRUE]
                 /\ UNCHANGED chain_arg
            ELSE IF ~output_check[1]
            THEN /\ marks' = <<"Crawl validation failed: " \o output_check[2],
                               "Crawl validation failed: " \o output_check[2]>>
                 /\ pc' = "failing"
                 /\ crawl_file' = crawl.file
                 /\ hist' = [begun EXCEPT !.crawl_started = TRUE]
                 /\ UNCHANGED chain_arg
            ELSE /\ pc' = link("crawl", FALSE)
                 /\ crawl_file' = crawl.file
                 /\ chain_arg' = Some(CrawlOutputFile)
                 /\ hist' = returned([begun EXCEPT !.crawl_started = TRUE],
                                     "crawl", CrawlOutputFile)
                 /\ UNCHANGED marks
    /\ UNCHANGED <<url, settings, engine, audit, queue, clock>>

\* compile_report_from_crawl(crawl_output_file, audit_id).
\* read_v is what the read inside validate_crawl_output does, read_c the read of line 396
compile_report_from_crawl ==
    /\ pc = "compile"
    /\ running' = "compile"
    /\ \E read_v \in ReadOutcomes, read_c \in ReadOutcomes :
        LET crawl_output_file == chain_arg[1]
            output_check == validate_crawl_output(crawl_file, read_v)
            rows == crawl_file[1].rows
            begun == started(hist, "compile")
            \* lines 765-779: the report is saved and the task returns
            persist(report, value) ==
                /\ audit' = [audit EXCEPT !.status = "ANALYZING_EXTERNAL",
                                          !.report_json = Some(report)]
                /\ chain_arg' = Some(value)
                /\ pc' = link("compile", FALSE)
                /\ hist' = [returned(begun, "compile", value)
                               EXCEPT !.checkpoint = Some(report)]
                /\ UNCHANGED marks
        IN  IF ~output_check[1]
            THEN \* line 392, then the handler of line 416 on the ValueError of line 393
                 /\ marks' = <<"Invalid crawl output: " \o output_check[2],
                               "Failed to read crawl output: Invalid crawl output: "
                                    \o output_check[2]>>
                 /\ pc' = "failing"
                 /\ hist' = begun
                 /\ UNCHANGED <<audit, chain_arg>>
            ELSE IF read_c # None
            THEN /\ marks' = <<"Failed to read crawl output: " \o read_c[1]>>
                 /\ pc' = "failing"
                 /\ hist' = begun
                 /\ UNCHANGED <<audit, chain_arg>>
            ELSE IF page_loop_raises(rows)
            THEN /\ marks' = <<"Failed to compile page-level report: " \o ArrayTruthError>>
                 /\ pc' = "failing"
                 /\ hist' = begun
                 /\ UNCHANGED <<audit, chain_arg>>
            ELSE IF top_words_raises(rows, "title") \/ top_words_raises(rows, "h1")
            THEN \* lines 721-754 stand in no try block: the task raises as it is
                 /\ pc' = link("compile", TRUE)
                 /\ hist' = raised(begun, "compile")
                 /\ UNCHANGED <<audit, chain_arg, marks>>
            ELSE persist(initial_report(rows),
                         [crawl_output_file |-> crawl_output_file,
                          links_to_check |-> links_to_check_of(rows, url)])
    /\ UNCHANGED <<url, settings, engine, crawl_file, queue, clock>>

\* the report check_external_links builds when the engine raises (lines 880-887)
failed_links_report(error) ==
    [unreachable_links |-> <<>>, broken_links |-> <<>>, permission_issues |-> <<>>,
     method_issues |-> <<>>, other_client_errors |-> <<>>, error |-> error]

EngineErrors == {"[Errno 28] No space left on device"}

\* check_external_links(previous_task_output, audit_id)
check_external_links ==
    /\ pc = "check"
    /\ running' = "check"
    /\ LET links_to_check == chain_arg[1].links_to_check
           crawl_output_file == chain_arg[1].crawl_output_file
           begun == started(hist, "check")
           urls == {probed_urls(links_to_check)[k] : k \in 1..Len(probed_urls(links_to_check))}
           finish(report, probes) ==
               LET value == [crawl_output_file |-> crawl_output_file,
                             external_links_report |-> report]
               IN  /\ chain_arg' = Some(value)
                   /\ hist' = [returned(begun, "check", value) EXCEPT !.probes = probes]
       IN  IF links_to_check = <<>>
           THEN finish(EmptyDict, None)
           ELSE \/ \E error \in EngineErrors :
                     finish(failed_links_report(error), Some([engine |-> "raised"]))
                \/ \E head \in [urls -> HeadStatuses], get \in [urls -> GetStatuses],
                      outcome \in [1..Len(chunks_of(links_to_check)) -> ChunkOutcomes],
                      overall_timeout \in BOOLEAN :
                     finish(check_external_links_async(links_to_check, head, get, outcome,
                                                       overall_timeout),
                            Some([engine |-> "ran", head |-> head, get |-> get,
                                  outcome |-> outcome, overall_timeout |-> overall_timeout]))
    /\ pc' = link("check", FALSE)
    /\ UNCHANGED <<url, settings, engine, audit, marks, crawl_file, queue, clock>>

\* A blob that drops the internal findings (used to test CheckpointPreserved)
blob_without_internal(report_json, external_links_report) ==
    [k \in DOMAIN report_json |-> IF k \in InternalBuckets THEN <<>> ELSE report_json[k]]

\* A blob that is the persisted report as it stands (used to test CompleteReportShape)
blob_unchanged(report_json, external_links_report) == report_json

\* lines 935-969: final_report_blob, from the persisted report and the engine's report
final_report_blob(report_json, external_links_report) ==
    LET unreachable_links == Get(external_links_report, "unreachable_links", <<>>)
        broken_links == Get(external_links_report, "broken_links", <<>>)
        permission_issues == Get(external_links_report, "permission_issues", <<>>)
        method_issues == Get(external_links_report, "method_issues", <<>>)
        other_client_errors == Get(external_links_report, "other_client_errors", <<>>)
        externals == [external_unreachable_links_found |-> Len(unreachable_links),
                      external_broken_links_found |-> Len(broken_links),
                      external_permission_issues_found |-> Len(permission_issues),
                      external_method_issues_found |-> Len(method_issues),
                      external_other_client_errors_found |-> Len(other_client_errors)]
        summary == [k \in DOMAIN report_json.summary \cup DOMAIN externals |->
                        IF k \in DOMAIN externals THEN externals[k]
                        ELSE report_json.summary[k]]
    IN  [summary |-> summary,
         external_unreachable_links |-> unreachable_links,
         external_broken_links |-> broken_links,
         external_permission_issue_links |-> permission_issues,
         external_method_issue_links |-> method_issues,
         external_other_client_errors |-> other_client_errors,
         internal_unreachable_links |-> report_json.internal_unreachable_links,
         internal_broken_links |-> report_json.internal_broken_links,
         internal_permission_issue_links |-> report_json.internal_permission_issue_links,
         internal_method_issue_links |-> report_json.internal_method_issue_links,
         internal_other_client_errors |-> report_json.internal_other_client_errors,
         page_level_report |-> report_json.page_level_report]

\* save_final_report(previous_task_output, audit_id), up to the commit of line 974
save_final_report ==
    /\ pc = "save"
    /\ running' = "save"
    /\ LET external_links_report == chain_arg[1].external_links_report
           saved == [audit EXCEPT
                        !.report_json = Some(final_report_blob(audit.report_json[1],
                                                               external_links_report)),
                        !.status = "COMPLETE",
                        !.completed_at = Some(clock)]
       IN  /\ audit' = saved
           /\ hist' = [started(hist, "save") EXCEPT !.completed = Some(saved)]
    /\ clock' = clock + 1
    /\ pc' = "notify"
    /\ UNCHANGED <<url, settings, engine, marks, crawl_file, chain_arg, queue>>

\* save_final_report from line 977 on: the delivery task is queued, inside the try block
\* of the commit; then the crawl file is removed.
\* enqueue_ok: the broker accepts the task, remove_ok: os.remove succeeds
save_final_report_notify ==
    /\ pc = "notify"
    /\ \E enqueue_ok \in BOOLEAN, remove_ok \in BOOLEAN :
        /\ IF ~callback_configured
           THEN UNCHANGED <<audit, queue>> /\ hist' = returned(hist, "save", None)
           ELSE IF enqueue_ok
           THEN /\ queue' = Append(queue, new_delivery(audit))
                /\ hist' = returned(hist, "save", None)
                /\ UNCHANGED audit
           ELSE \* the handler of line 984
                /\ audit' = [audit EXCEPT !.status = "ERROR"]
                /\ hist' = [returned(hist, "save", None) EXCEPT !.enqueue_failed = TRUE]
                /\ UNCHANGED queue
        /\ crawl_file' = IF crawl_file # None /\ remove_ok THEN None ELSE crawl_file
    /\ pc' = link("save", FALSE)
    /\ UNCHANGED <<url, settings, engine, running, marks, chain_arg, clock>>

\* self.retry(..., max_retries=5)
max_retries == 5

\* What the POST to the dashboard does
PostOutcomes == {"delivered", "RequestError", "HTTPStatusError", "TypeError"}

\* A handler that retries after every failure (used to test OnlyTransportErrorsRetried)
any_failure(post) == post # "delivered"

\* line 1086: except httpx.RequestError
is_request_error(post) == post = "RequestError"

\* A backoff that grows by 60 s with each retry (used to test BoundedBackoff)
linear_countdown(retries) == 60 * (retries + 1)

\* line 1096: countdown=60 * (2**self.request.retries)
countdown(retries) == 60 * 2 ^ retries

\* lines 1043-1056: callback_payload, the fields read from the row a
callback_payload(a) ==
    [status |-> a.status, url |-> url, completed_at |-> a.completed_at,
     error_message |-> a.error_message, technical_error |-> a.technical_error,
     report_json |-> a.report_json]

\* send_report_to_dashboard(audit_id): one execution of the task at the head of the queue
send_report_to_dashboard ==
    /\ queue # <<>>
    /\ \E post \in PostOutcomes :
        LET request == Head(queue)
            attempted(retried) ==
                [hist EXCEPT !.attempt = Some([request |-> request, post |-> post,
                                               payload |-> callback_payload(audit),
                                               retried |-> retried])]
        IN  IF ~settings.callback_url \/ ~settings.api_key
            THEN /\ queue' = Tail(queue)
                 /\ hist' = [hist EXCEPT !.attempt = Some([request |-> request,
                                                           post |-> "not configured",
                                                           payload |-> None,
                                                           retried |-> FALSE])]
            ELSE IF is_request_error(post) /\ request.retries < max_retries
            THEN /\ queue' = Append(Tail(queue),
                                    [request EXCEPT !.retries = @ + 1,
                                                    !.countdown = countdown(request.retries)])
                 /\ hist' = attempted(TRUE)
            ELSE /\ queue' = Tail(queue)
                 /\ hist' = [attempted(FALSE) EXCEPT !.deliveries =
                                IF post = "delivered" THEN @ + 1 ELSE @]
    /\ UNCHANGED <<url, settings, engine, audit, pc, running, marks, crawl_file, chain_arg,
                   clock>>

Next ==
    \/ run_advertools_crawl
    \/ mark_audit_failed
    \/ compile_report_from_crawl
    \/ check_external_links
    \/ save_final_report
    \/ save_final_report_notify
    \/ send_report_to_dashboard

Spec == Init /\ [][Next]_vars

----------------------------------------------------------------------------
(* _mark_audit_failed on its own: an audit row in any status and one or two calls *)

MarkMessages == {"", "Connection refused", "Spider closed"}

\* Audit rows as the pipeline leaves them, one for each status
AuditRows ==
    LET analyzing == [NewAudit EXCEPT !.status = "ANALYZING_EXTERNAL",
                                      !.report_json = Some(initial_report(SiteTable))]
        complete == [NewAudit EXCEPT
                        !.status = "COMPLETE",
                        !.report_json = Some(final_report_blob(initial_report(SiteTable),
                                                               EmptyDict)),
                        !.completed_at = Some(0)]
    IN  {NewAudit, analyzing, complete, [complete EXCEPT !.status = "ERROR"],
         failure_write(NewAudit, classify_error(Some("Connection refused")), 0),
         failure_write(NewAudit, classify_error(Some("Spider closed")), 0)}

InitMark ==
    /\ url = "http://a.co"
    /\ settings \in [callback_url : BOOLEAN, api_key : BOOLEAN]
    /\ audit \in AuditRows
    /\ pc = "failing"
    /\ running \in {"crawl", "compile"}
    /\ marks \in {<<m>> : m \in MarkMessages}
                    \cup {<<m, n>> : m \in MarkMessages, n \in MarkMessages}
    /\ crawl_file = None
    /\ chain_arg = None
    /\ queue = <<>>
    /\ clock = 1
    /\ hist = NoHistory
    /\ engine = None

NextMark ==
    \/ mark_audit_failed
    \/ send_report_to_dashboard

SpecMark == InitMark /\ [][NextMark]_vars

----------------------------------------------------------------------------
(* Properties *)

FinalStatuses == {"COMPLETE", "FAILED", "ERROR"}

\* C1: once the status of the audit is COMPLETE, FAILED or ERROR, no step of the
\* pipeline (stage, _mark_audit_failed, the handler of save_final_report, the notifier)
\* changes status, error_message, technical_error or report_json again.
StatusOnlyMovesForward ==
    [][audit.status \in FinalStatuses =>
            /\ audit'.status = audit.status
            /\ audit'.error_message = audit.error_message
            /\ audit'.technical_error = audit.technical_error
            /\ audit'.report_json = audit.report_json]_vars

\* C2: a call of _mark_audit_failed on an audit whose status is FAILED or COMPLETE
\* leaves every field of the audit as it was and queues no delivery.
MarkIdempotentOnTerminal ==
    [][(hist'.mark_calls = hist.mark_calls + 1 /\ audit.status \in {"FAILED", "COMPLETE"})
            => (audit' = audit /\ queue' = queue)]_vars

\* a call has been skipped on a COMPLETE audit
MarkSkippedOnComplete == hist.mark_skips > 0 /\ audit.status = "COMPLETE"

\* C3: in one run of the pipeline the failure write of _mark_audit_failed is applied
\* at most once, whatever the classifier returns and however often a stage calls it.
MarkedAtMostOnce == hist.mark_writes <= 1

\* C4: a pipeline that has ended, by a raised stage or by the last stage, has left the
\* audit in a status other than PENDING and ANALYZING_EXTERNAL.
EndedAuditIsTerminal ==
    pc \in {"aborted", "done"} => audit.status \notin {"PENDING", "ANALYZING_EXTERNAL"}

\* C5: after save_final_report has committed COMPLETE, the audit row stays exactly as
\* committed, whatever becomes of queueing and delivering the notification.
CompleteStaysComplete == hist.completed # None => audit = hist.completed[1]

StagesRunInChainOrder ==
    /\ pc \in {"crawl", "compile", "check", "save"} =>
            /\ hist.raised = <<>>
            /\ Len(hist.ran) = StageIndex(pc) - 1
            /\ Len(hist.returned) = StageIndex(pc) - 1
    /\ \A k \in 1..Len(hist.ran) :
            /\ hist.ran[k].stage = Stages[k]
            /\ k > 1 => /\ Len(hist.returned) >= k - 1
                        /\ hist.returned[k - 1].stage = Stages[k - 1]
                        /\ hist.ran[k].arg = Some(hist.returned[k - 1].value)
    /\ hist.raised # <<>> =>
            /\ hist.raised = <<Stages[Len(hist.ran)]>>
            /\ Len(hist.returned) = Len(hist.ran) - 1
            /\ pc = "aborted"
            /\ audit.status # "COMPLETE"

\* compile_report_from_crawl raised after the crawl had returned, and the chain ended
CompileRaisedChainEnded ==
    pc = "aborted" /\ hist.raised = <<"compile">> /\ Len(hist.returned) = 1

CheckpointKeys == InternalBuckets \cup {"page_level_report"}

\* C8: when check_external_links starts, the audit is persisted as ANALYZING_EXTERNAL
\* with the report of the checkpoint; from then on the internal buckets and the
\* page-level report of the persisted report are those of the checkpoint, also in the
\* COMPLETE report.
CheckpointPreserved ==
    /\ pc = "check" =>
            /\ hist.checkpoint # None
            /\ audit.status = "ANALYZING_EXTERNAL"
            /\ audit.report_json = hist.checkpoint
    /\ Len(hist.ran) >= 3 => hist.checkpoint # None
    /\ hist.checkpoint # None =>
            /\ audit.report_json # None
            /\ CheckpointKeys \subseteq DOMAIN audit.report_json[1]
            /\ \A key \in CheckpointKeys :
                    audit.report_json[1][key] = hist.checkpoint[1][key]

\* a COMPLETE audit with internal findings whose verification lost a chunk
CompleteAfterLostChunk ==
    /\ audit.status = "COMPLETE"
    /\ hist.checkpoint # None
    /\ hist.checkpoint[1].internal_broken_links # <<>>
    /\ hist.probes # None
    /\ hist.probes[1].engine = "ran"
    /\ \E c \in DOMAIN hist.probes[1].outcome : hist.probes[1].outcome[c] = "timeout"

ExternalReportKeys ==
    {"external_unreachable_links", "external_broken_links", "external_permission_issue_links",
     "external_method_issue_links", "external_other_client_errors"}

\* C9: the report of a COMPLETE audit has the five external and the five internal
\* buckets, and no top-level status or audit_id.
CompleteReportShape ==
    audit.status = "COMPLETE" =>
        /\ audit.report_json # None
        /\ ExternalReportKeys \cup InternalBuckets \subseteq DOMAIN audit.report_json[1]
        /\ "status" \notin DOMAIN audit.report_json[1]
        /\ "audit_id" \notin DOMAIN audit.report_json[1]

\* a COMPLETE audit whose link verification raised
CompleteAfterFailedVerification ==
    /\ audit.status = "COMPLETE"
    /\ hist.probes # None
    /\ hist.probes[1].engine = "raised"

\* the report check_external_links returned
returned_links_report == hist.returned[3].value.external_links_report

\* HEAD recorded a 4xx for u and the GET fallback a 2xx or 3xx
recovered(u) ==
    /\ hist.probes[1].head[u] # None
    /\ 400 <= hist.probes[1].head[u][1] /\ hist.probes[1].head[u][1] < 500
    /\ 200 <= hist.probes[1].get[u] /\ hist.probes[1].get[u] <= 399

\* C10: a url whose HEAD probe recorded a 4xx and whose GET fallback returned a 2xx or
\* 3xx has no finding in any bucket of the external-links report.
FallbackSupersedes ==
    (hist.probes # None /\ hist.probes[1].engine = "ran") =>
        \A u \in DOMAIN hist.probes[1].head :
            recovered(u) =>
                \A b \in ExternalBuckets :
                    \A k \in 1..Len(returned_links_report[b]) :
                        returned_links_report[b][k].url # u

\* the chunks were merged, one url was recovered by the fallback and another reported
RecoveredBesideFinding ==
    /\ hist.probes # None
    /\ hist.probes[1].engine = "ran"
    /\ ~hist.probes[1].overall_timeout
    /\ \A c \in DOMAIN hist.probes[1].outcome : hist.probes[1].outcome[c] = "success"
    /\ recovered(ExtA)
    /\ \E b \in ExternalBuckets : returned_links_report[b] # <<>>

----------------------------------------------------------------------------
(* Link categorisation on its own: the internal-link analysis of
   compile_report_from_crawl and check_external_links_async, applied to links of
   every false-positive family with every kind of status *)

PageA == "http://a.co/"
PageB == "http://a.co/about"
ExtB == "http://ext.io/b"

\* A plain url and one url for each pattern family of is_likely_false_positive
LinkSamples ==
    {ExtA, ExtLogin, "http://EXT.io/LOGIN/", "http://sso.ext.io/", "http://linkedin.com/in/x",
     "http://hotjar.com/t.js", "http://shop.io/go/deal", "http://hr.corp.ext.io/",
     "http://static.ext.io/app.js"}

\* Response statuses: healthy ones, each status the ladders name, other 4xx and 5xx,
\* and 999 (sent by servers that refuse crawlers)
StatusSamples == {200, 301, 400, 401, 403, 404, 405, 410, 429, 499, 500, 503, 599, 999}

\* What adv.crawl_headers records for a url (None: an error record without status)
HeadSamples == {Some(s) : s \in StatusSamples} \cup {None}

\* What run_get_fallback_check returns for a url (-1: the GET request failed)
GetSamples == {-1, 200, 403, 404, 429, 503, 999}

\* One link found on one page, with what the probes answer and the page it is as an
\* internal page of the crawl
OneLinkInputs ==
    {[links_to_check |-> <<[link |-> u, source_url |-> PageA]>>,
      head |-> [x \in {u} |-> h],
      get |-> [x \in {u} |-> g],
      rows |-> <<Page(Some(u), h, None, None, None, Some(PageA), <<>>)>>] :
        u \in LinkSamples, h \in HeadSamples, g \in GetSamples}

MaxLinksToCheck == 4

\* links_to_check of two urls found on two pages, in every order and with repeats
LinkLists ==
    UNION {[1..n -> {[link |-> u, source_url |-> p] : u \in {ExtA, ExtB}, p \in {PageA, PageB}}] :
              n \in 1..MaxLinksToCheck}

\* The crawl rows of the pages that hold the links of l
referring_rows(l) ==
    [k \in 1..Len(l) |->
        Page(Some(l[k].link), Some(404), None, None, None, Some(l[k].source_url), <<>>)]

ManyLinkInputs ==
    {[links_to_check |-> l,
      head |-> [x \in {ExtA, ExtB} |-> IF x = ExtA THEN Some(404) ELSE Some(503)],
      get |-> [x \in {ExtA, ExtB} |-> 410],
      rows |-> referring_rows(l)] : l \in LinkLists}

InitLinks ==
    /\ url = "http://a.co"
    /\ settings = [callback_url |-> FALSE, api_key |-> FALSE]
    /\ audit = NewAudit
    /\ pc = "check"
    /\ running = ""
    /\ marks = <<>>
    /\ crawl_file = None
    /\ chain_arg = None
    /\ queue = <<>>
    /\ clock = 1
    /\ hist = NoHistory
    /\ \E input \in OneLinkInputs \cup ManyLinkInputs :
          engine = [links_to_check |-> input.links_to_check, head |-> input.head,
                    get |-> input.get, rows |-> input.rows,
                    external_links_report |-> None, internal_links_report |-> None]

\* every chunk of l succeeds
all_succeed(l) == [c \in 1..Len(chunks_of(l)) |-> "success"]

\* check_external_links_async on the links, every chunk succeeding in time
external_link_check ==
    /\ engine # None
    /\ "external_links_report" \in DOMAIN engine
    /\ engine.external_links_report = None
    /\ engine' = [engine EXCEPT !.external_links_report =
                    Some(check_external_links_async(engine.links_to_check, engine.head,
                                                    engine.get,
                                                    all_succeed(engine.links_to_check), FALSE))]
    /\ UNCHANGED <<url, settings, audit, pc, running, marks, crawl_file, chain_arg, queue,
                   clock, hist>>

\* the internal-link analysis of compile_report_from_crawl (lines 572-679) on the rows
internal_link_check ==
    /\ engine # None
    /\ "internal_links_report" \in DOMAIN engine
    /\ engine.internal_links_report = None
    /\ engine' = [engine EXCEPT !.internal_links_report = Some(internal_links(engine.rows))]
    /\ UNCHANGED <<url, settings, audit, pc, running, marks, crawl_file, chain_arg, queue,
                   clock, hist>>

NextLinks ==
    \/ external_link_check
    \/ internal_link_check

SpecLinks == InitLinks /\ [][NextLinks]_vars

----------------------------------------------------------------------------
(* Properties of the link categorisation *)

\* the links have been verified
links_verified == engine # None /\ engine.external_links_report # None

\* the internal pages have been analysed
internal_analysed == engine # None /\ engine.internal_links_report # None

\* the final results of the probes: the rows the chunks wrote, a missing status read
\* as -1 (line 1855)
final_results ==
    LET chunks == chunks_of(engine.links_to_check)
        rows == Flatten([c \in 1..Len(chunks) |->
                            run_advertools_chunk(chunks[c], engine.head, engine.get)])
    IN  [k \in 1..Len(rows) |->
            [url |-> rows[k].url,
             status |-> IF rows[k].status = None THEN -1 ELSE rows[k].status[1]]]

\* the buckets of the external report that hold a finding for u
external_buckets_of(u) ==
    {b \in ExternalBuckets :
        \E k \in 1..Len(engine.external_links_report[1][b]) :
            engine.external_links_report[1][b][k].url = u}

\* the buckets of the internal report that hold a finding for u
internal_buckets_of(u) ==
    {b \in InternalBuckets :
        \E k \in 1..Len(engine.internal_links_report[1][b]) :
            engine.internal_links_report[1][b][k].url = u}

\* the url matches one of the pattern families
matches_pattern(u) == known_false_positive(Lower(u))

\* C11: a url whose final status is -1 is reported in the unreachable bucket and in no
\* other, whatever pattern it matches; a url matching an authentication pattern whose
\* final status is 404 is in no bucket.
UnreachableNeverSuppressed ==
    links_verified =>
        \A k \in 1..Len(final_results) :
            /\ final_results[k].status = -1
                => external_buckets_of(final_results[k].url) = {"unreachable_links"}
            /\ (final_results[k].status = 404
                    /\ AnyIn(auth_patterns, Lower(final_results[k].url)))
                => external_buckets_of(final_results[k].url) = {}

\* the login url could not be reached, also not by GET, and is reported
UnreachableLoginReported ==
    /\ links_verified
    /\ \E k \in 1..Len(final_results) :
          final_results[k].url = ExtLogin /\ final_results[k].status = -1
    /\ Len(engine.external_links_report[1].unreachable_links) = 1

\* C12 as stated: a result with a 4xx or 5xx status whose url matches a pattern is in
\* no bucket, for external and for internal links.
SuppressionCoversServerErrors ==
    /\ links_verified =>
          \A k \in 1..Len(final_results) :
              (400 <= final_results[k].status /\ final_results[k].status < 600
                    /\ matches_pattern(final_results[k].url))
                => external_buckets_of(final_results[k].url) = {}
    /\ internal_analysed =>
          \A k \in 1..Len(engine.rows) :
              (engine.rows[k].status # None
                    /\ 400 <= engine.rows[k].status[1] /\ engine.rows[k].status[1] < 600
                    /\ matches_pattern(engine.rows[k].url[1]))
                => internal_buckets_of(engine.rows[k].url[1]) = {}

\* C12: a result with a 4xx status whose url matches a pattern is in no bucket, for
\* external and for internal links; with a 5xx status the same url is not suppressed
\* and is reported as a broken link.
ClientErrorSuppression ==
    /\ links_verified =>
          \A k \in 1..Len(final_results) :
              matches_pattern(final_results[k].url) =>
                  /\ (400 <= final_results[k].status /\ final_results[k].status < 500)
                        => external_buckets_of(final_results[k].url) = {}
                  /\ (500 <= final_results[k].status /\ final_results[k].status < 600)
                        => external_buckets_of(final_results[k].url) = {"broken_links"}
    /\ internal_analysed =>
          \A k \in 1..Len(engine.rows) :
              (engine.rows[k].status # None /\ matches_pattern(engine.rows[k].url[1])) =>
                  /\ (400 <= engine.rows[k].status[1] /\ engine.rows[k].status[1] < 500)
                        => internal_buckets_of(engine.rows[k].url[1]) = {}
                  /\ (500 <= engine.rows[k].status[1] /\ engine.rows[k].status[1] < 600)
                        => internal_buckets_of(engine.rows[k].url[1])
                                = {"internal_broken_links"}

\* a url of a tracking domain answered 429 to HEAD and to GET and is reported nowhere,
\* as external link and as internal page
TrackerSuppressed ==
    /\ links_verified
    /\ internal_analysed
    /\ engine.rows[1].url = Some("http://hotjar.com/t.js")
    /\ engine.rows[1].status = Some(429)
    /\ \E k \in 1..Len(final_results) : final_results[k].status = 429
    /\ \A b \in ExternalBuckets : engine.external_links_report[1][b] = <<>>
    /\ \A b \in InternalBuckets : engine.internal_links_report[1][b] = <<>>

\* the bucket the categorisation table gives a status ("": the table has no row for it)
table_bucket(status) ==
    IF status = -1 THEN "unreachable_links"
    ELSE IF status \in {404, 410} THEN "broken_links"
    ELSE IF status = 403 THEN "permission_issues"
    ELSE IF status = 405 THEN "method_issues"
    ELSE IF status \in 400..499 THEN "other_client_errors"
    ELSE IF status \in 500..599 THEN "broken_links"
    ELSE ""

\* C13: every final result that is not suppressed and whose status is not 2xx/3xx is in
\* exactly one bucket, the one of the table; a 2xx/3xx result is in none.
CategorizationTotal ==
    links_verified =>
        \A k \in 1..Len(final_results) :
            LET r == final_results[k]
            IN  IF 200 <= r.status /\ r.status <= 399
                THEN external_buckets_of(r.url) = {}
                ELSE ~is_likely_false_positive(r.url, r.status) =>
                        /\ Cardinality(external_buckets_of(r.url)) = 1
                        /\ table_bucket(r.status) # ""
                              => external_buckets_of(r.url) = {table_bucket(r.status)}

\* the pages that refer to u, each once, in the order they are first seen
RECURSIVE referring_pages(_, _)
referring_pages(links, u) ==
    IF links = <<>> THEN <<>>
    ELSE LET before == referring_pages(SubSeq(links, 1, Len(links) - 1), u)
             last == links[Len(links)]
         IN  IF last.link = u /\ \A i \in 1..Len(before) : before[i] # last.source_url
             THEN Append(before, last.source_url)
             ELSE before

----------------------------------------------------------------------------
(* The cap on external links: check_external_links_async on more links than
   MAX_EXTERNAL_LINKS *)

\* unique links beyond the cap that the largest input holds
MaxExcess == 2

\* the largest of the small inputs
MaxFewLinks == 45

MaxDomains == 2

\* the k-th external link of a site whose links go to d domains in turn
numbered_link(k, d) == "http://d" \o ToString(k % d) \o ".io/" \o ToString(k)

\* n unique links, found on page A one after the other, each `times` times over
numbered_links(n, d, times) ==
    [i \in 1..(n * times) |->
        [link |-> numbered_link((i - 1) \div times + 1, d), source_url |-> PageA]]

CapInputs ==
    {numbered_links(n, d, 1) :
        n \in (1..MaxFewLinks) \cup ((MAX_EXTERNAL_LINKS - 1)..(MAX_EXTERNAL_LINKS + MaxExcess)),
        d \in 1..MaxDomains}
      \cup {numbered_links(MAX_EXTERNAL_LINKS + MaxExcess, 1, 2)}

\* every link answers 503 to HEAD: each probed url becomes a finding
InitCap ==
    /\ url = "http://a.co"
    /\ settings = [callback_url |-> FALSE, api_key |-> FALSE]
    /\ audit = NewAudit
    /\ pc = "check"
    /\ running = ""
    /\ marks = <<>>
    /\ crawl_file = None
    /\ chain_arg = None
    /\ queue = <<>>
    /\ clock = 1
    /\ hist = NoHistory
    /\ \E l \in CapInputs :
          engine = [links_to_check |-> l,
                    head |-> [x \in {l[k].link : k \in 1..Len(l)} |-> Some(503)],
                    get |-> [x \in {l[k].link : k \in 1..Len(l)} |-> 404],
                    rows |-> <<>>,
                    external_links_report |-> None, internal_links_report |-> None]

SpecCap == InitCap /\ [][external_link_check]_vars

\* the unique urls of the input, in discovery order
RECURSIVE discovered(_)
discovered(links) ==
    IF links = <<>> THEN <<>>
    ELSE LET before == discovered(SubSeq(links, 1, Len(links) - 1))
         IN  IF \E i \in 1..Len(before) : before[i] = links[Len(links)].link
             THEN before
             ELSE Append(before, links[Len(links)].link)

\* C14: whatever the number of links, the urls probed are the first 100 unique urls in
\* discovery order: no more than 100 findings come back, each for one of these urls,
\* and the engine returns a report.
ProbesAreCapped ==
    links_verified =>
        LET found == engine.external_links_report[1].broken_links
            first == discovered(engine.links_to_check)
        IN  /\ Len(found) <= MAX_EXTERNAL_LINKS
            /\ {found[k].url : k \in 1..Len(found)}
                  = {first[k] : k \in 1..Min2(Len(first), MAX_EXTERNAL_LINKS)}
            /\ Len(found) = Min2(Len(first), MAX_EXTERNAL_LINKS)

\* more than 100 unique links went in and exactly 100 findings came back
ExcessLinksDropped ==
    /\ links_verified
    /\ Len(engine.links_to_check) = MAX_EXTERNAL_LINKS + MaxExcess
    /\ Len(engine.external_links_report[1].broken_links) = MAX_EXTERNAL_LINKS

----------------------------------------------------------------------------
(* check_external_links_async step by step: the chunk coroutines on the event loop,
   their worker threads, the semaphore, the two timeouts and the chunk files.
   Of time only one thing is kept: whether 300 s have passed since the gather began.
   The first chunks begin with the gather, so none of them still awaits its worker
   then; a chunk that began before that moment has its own timeout before the overall
   one, so the overall timeout finds only chunks awaiting that began after it. *)

\* asyncio.Semaphore(3), line 1740
MaxConcurrentChunks == 3

\* the largest number of chunks of an input
MaxChunks == 4

\* No semaphore: no task counts as holding a permit (used to test AtMostThreeWorkers)
no_semaphore(task_state) == FALSE

\* process_chunk_async is inside `async with semaphore` (line 1744): from the moment it
\* is let in until the `with ThreadPoolExecutor` block has been left, which waits for
\* the worker thread (line 1754)
holds_semaphore(task_state) == task_state \in {"running", "timed_out", "cancelling"}

\* the event loop is inside executor.shutdown(wait=True) of some chunk: no coroutine
\* runs until the worker thread of that chunk has finished
loop_blocked == \E c \in DOMAIN engine.task : engine.task[c] \in {"timed_out", "cancelling"}

\* a chunk waits for the semaphore although a permit is free: it is the next
\* coroutine to run
permit_waiting ==
    /\ \E c \in DOMAIN engine.task : engine.task[c] = "pending"
    /\ Cardinality({b \in DOMAIN engine.task : holds_semaphore(engine.task[b])})
          < MaxConcurrentChunks

\* the chunk's coroutine has ended
task_ended(task_state) == task_state \in {"done", "cancelled"}

\* chunks, as line 1726 computed them
engine_chunks == engine.chunks

InitEngine ==
    /\ url = "http://a.co"
    /\ settings = [callback_url |-> FALSE, api_key |-> FALSE]
    /\ audit = NewAudit
    /\ pc = "check"
    /\ running = ""
    /\ marks = <<>>
    /\ crawl_file = None
    /\ chain_arg = None
    /\ queue = <<>>
    /\ clock = 1
    /\ hist = NoHistory
    /\ \E n \in 1..MaxChunks :
          LET l == numbered_links(n, 1, 1)
              chunks == chunks_of(l)
          IN  engine = [links_to_check |-> l,
                        head |-> [x \in {l[k].link : k \in 1..Len(l)} |-> Some(503)],
                        get |-> [x \in {l[k].link : k \in 1..Len(l)} |-> 404],
                        chunks |-> chunks,
                        task |-> [c \in 1..Len(chunks) |-> "pending"],
                        thread |-> [c \in 1..Len(chunks) |-> "idle"],
                        result |-> [c \in 1..Len(chunks) |-> ""],
                        output_file |-> [c \in 1..Len(chunks) |-> FALSE],
                        temp_head_file |-> [c \in 1..Len(chunks) |-> FALSE],
                        began_late |-> [c \in 1..Len(chunks) |-> FALSE],
                        late |-> FALSE,
                        overall_timeout |-> FALSE,
                        external_links_report |-> None]

\* the engine is in its gather (lines 1792-1797)
gathering ==
    /\ engine # None
    /\ "task" \in DOMAIN engine
    /\ engine.external_links_report = None

\* lines 1744-1762: the chunk waiting longest is let in by the semaphore and hands
\* run_advertools_chunk to its executor
process_chunk_async ==
    /\ gathering
    /\ ~loop_blocked
    /\ \E c \in DOMAIN engine.task :
          /\ engine.task[c] = "pending"
          /\ \A b \in 1..(c - 1) : engine.task[b] # "pending"
          /\ Cardinality({b \in DOMAIN engine.task : holds_semaphore(engine.task[b])})
                < MaxConcurrentChunks
          /\ engine' = [engine EXCEPT !.task[c] = "running", !.thread[c] = "working",
                                      !.began_late[c] = engine.late]
    /\ UNCHANGED <<url, settings, audit, pc, running, marks, crawl_file, chain_arg, queue,
                   clock, hist>>

\* run_advertools_chunk in its thread, to its end: it returns success, having removed
\* the HEAD file and written the output file, or an exception in it (in crawl_headers
\* or in the read of line 1351) makes it return failure, the HEAD file left or not
worker_thread ==
    /\ gathering
    /\ \E c \in DOMAIN engine.thread :
          /\ engine.thread[c] = "working"
          /\ \/ engine' = [engine EXCEPT !.thread[c] = "returned", !.output_file[c] = TRUE]
             \/ \E left \in BOOLEAN :
                   engine' = [engine EXCEPT !.thread[c] = "failed", !.temp_head_file[c] = left]
    /\ UNCHANGED <<url, settings, audit, pc, running, marks, crawl_file, chain_arg, queue,
                   clock, hist>>

\* line 1763: the worker is done in time and the chunk returns its result
chunk_returns ==
    /\ gathering
    /\ ~loop_blocked
    /\ ~permit_waiting
    /\ \E c \in DOMAIN engine.task :
          /\ engine.task[c] = "running"
          /\ engine.thread[c] \in {"returned", "failed"}
          /\ engine' = [engine EXCEPT
                          !.task[c] = "done",
                          !.result[c] = IF engine.thread[c] = "returned" THEN "success"
                                        ELSE "failure"]
    /\ UNCHANGED <<url, settings, audit, pc, running, marks, crawl_file, chain_arg, queue,
                   clock, hist>>

\* lines 1764-1773: the 300 s of a chunk are over while its worker still runs; the
\* chunk will return failure once the executor has been shut down
chunk_timeout ==
    /\ gathering
    /\ ~loop_blocked
    /\ ~permit_waiting
    /\ \E c \in DOMAIN engine.task :
          /\ engine.task[c] = "running"
          /\ engine.thread[c] = "working"
          /\ engine' = [engine EXCEPT !.task[c] = "timed_out", !.late = TRUE]
    /\ UNCHANGED <<url, settings, audit, pc, running, marks, crawl_file, chain_arg, queue,
                   clock, hist>>

\* the end of the `with ThreadPoolExecutor` block (line 1754) of a chunk that timed out
\* or was cancelled: shutdown(wait=True) returns when the worker has finished
executor_shutdown ==
    /\ gathering
    /\ \E c \in DOMAIN engine.task :
          /\ engine.task[c] \in {"timed_out", "cancelling"}
          /\ engine.thread[c] \in {"returned", "failed"}
          /\ engine' = [engine EXCEPT
                          !.task[c] = IF engine.task[c] = "timed_out" THEN "done"
                                      ELSE "cancelled",
                          !.result[c] = IF engine.task[c] = "timed_out" THEN "Timeout" ELSE ""]
    /\ UNCHANGED <<url, settings, audit, pc, running, marks, crawl_file, chain_arg, queue,
                   clock, hist>>

\* 300 s pass without a chunk timing out: the chunks that began with the gather have
\* all ended
time_passes ==
    /\ gathering
    /\ ~engine.late
    /\ ~permit_waiting
    /\ \A c \in DOMAIN engine.task : c <= MaxConcurrentChunks => engine.task[c] # "running"
    /\ \E c \in DOMAIN engine.task : ~task_ended(engine.task[c])
    /\ engine' = [engine EXCEPT !.late = TRUE]
    /\ UNCHANGED <<url, settings, audit, pc, running, marks, crawl_file, chain_arg, queue,
                   clock, hist>>

\* lines 1798-1805: the 600 s are over before every chunk has ended; the gather is
\* cancelled and with it every chunk that has not ended
overall_timeout ==
    /\ gathering
    /\ ~loop_blocked
    /\ ~permit_waiting
    /\ ~engine.overall_timeout
    /\ engine.late
    /\ \A c \in DOMAIN engine.task : engine.task[c] = "running" => engine.began_late[c]
    /\ \E c \in DOMAIN engine.task : ~task_ended(engine.task[c])
    /\ engine' = [engine EXCEPT
                    !.overall_timeout = TRUE,
                    !.task = [c \in DOMAIN engine.task |->
                                IF engine.task[c] = "pending" THEN "cancelled"
                                ELSE IF engine.task[c] = "running" THEN "cancelling"
                                ELSE engine.task[c]]]
    /\ UNCHANGED <<url, settings, audit, pc, running, marks, crawl_file, chain_arg, queue,
                   clock, hist>>

\* what the merge takes chunk c for: after the overall timeout chunk_results holds a
\* failure for every chunk (lines 1802-1805)
chunk_outcome(task_result) ==
    IF task_result = "success" THEN "success"
    ELSE IF task_result = "Timeout" THEN "timeout"
    ELSE "failure"

\* lines 1814-1973: the merge of the chunk results, which removes the output file of
\* every chunk it merges (line 1936), and the return
merge_results ==
    /\ gathering
    /\ \A c \in DOMAIN engine.task : task_ended(engine.task[c])
    /\ engine' = [engine EXCEPT
                    !.external_links_report =
                        Some(merge_chunks(engine_chunks, engine.links_to_check, engine.head,
                                          engine.get,
                                          [c \in DOMAIN engine.result |->
                                              chunk_outcome(engine.result[c])],
                                          engine.overall_timeout)),
                    !.output_file =
                        [c \in DOMAIN engine.output_file |->
                            IF ~engine.overall_timeout /\ engine.result[c] = "success"
                            THEN FALSE
                            ELSE engine.output_file[c]]]
    /\ UNCHANGED <<url, settings, audit, pc, running, marks, crawl_file, chain_arg, queue,
                   clock, hist>>

NextEngine ==
    \/ process_chunk_async
    \/ worker_thread
    \/ chunk_returns
    \/ chunk_timeout
    \/ executor_shutdown
    \/ time_passes
    \/ overall_timeout
    \/ merge_results

SpecEngine == InitEngine /\ [][NextEngine]_vars

----------------------------------------------------------------------------
(* Properties of the engine's concurrency *)

\* check_external_links_async has merged and returned
engine_returned ==
    engine # None /\ "task" \in DOMAIN engine /\ engine.external_links_report # None

\* the returned report holds a finding for a url of chunk c
found_for(c) ==
    \E b \in ExternalBuckets :
        \E k \in 1..Len(engine.external_links_report[1][b]) :
            \E i \in 1..Len(engine_chunks[c]) :
                engine.external_links_report[1][b][k].url = engine_chunks[c][i]

AtMostThreeWorkers ==
    (engine # None /\ "thread" \in DOMAIN engine) =>
        Cardinality({c \in DOMAIN engine.thread : engine.thread[c] = "working"}) <= 3

\* three workers run, one of them for a chunk that has timed out, and a chunk waits
ThreeWorkersOneWaiting ==
    /\ engine # None
    /\ "thread" \in DOMAIN engine
    /\ Cardinality({c \in DOMAIN engine.thread : engine.thread[c] = "working"}) = 3
    /\ \E c \in DOMAIN engine.task : engine.task[c] = "timed_out"
    /\ \E c \in DOMAIN engine.task : engine.task[c] = "pending"

\* C18: when the engine returns after the overall timeout, the findings of every chunk
\* that had returned success before it are in the report.
CompletedChunksKept ==
    (engine_returned /\ engine.overall_timeout) =>
        \A c \in DOMAIN engine.task : engine.result[c] = "success" => found_for(c)

\* C20: when the engine has returned, no chunk has left its output file or its HEAD
\* temporary file behind.
NoChunkArtifactsLeft ==
    engine_returned =>
        \A c \in DOMAIN engine.task : ~engine.output_file[c] /\ ~engine.temp_head_file[c]

----------------------------------------------------------------------------
(* Verification is best-effort *)

\* check_external_links has begun
check_began == \E k \in 1..Len(hist.ran) : hist.ran[k].stage = "check"

\* check_external_links has returned
check_returned == \E k \in 1..Len(hist.returned) : hist.returned[k].stage = "check"

\* C19: whatever happens inside the verification (the engine raises, chunks fail or
\* time out, the overall timeout fires), check_external_links does not raise and marks
\* nothing: it returns a report that is empty or holds the five buckets, the chain goes
\* on to save_final_report, the audit is never FAILED, and save_final_report commits
\* it as COMPLETE.
VerificationBestEffort ==
    check_began =>
        /\ \A k \in 1..Len(hist.raised) : hist.raised[k] # "check"
        /\ hist.mark_calls = 0 /\ marks = <<>>
        /\ pc \in {"check", "save", "notify", "done"}
        /\ pc = "check" <=> ~check_returned
        /\ audit.status # "FAILED"
        /\ audit.status = "ERROR" => hist.enqueue_failed
        /\ check_returned =>
              /\ chain_arg # None
              /\ \/ returned_links_report = EmptyDict
                 \/ ExternalBuckets \subseteq DOMAIN returned_links_report
        /\ pc \in {"notify", "done"} =>
              /\ hist.completed # None
              /\ hist.completed[1].status = "COMPLETE"

\* a COMPLETE audit whose verification lost every chunk or ran into the overall timeout
CompleteAfterNothingVerified ==
    /\ audit.status = "COMPLETE"
    /\ pc = "done"
    /\ hist.probes # None
    /\ hist.probes[1].engine = "ran"
    /\ \/ hist.probes[1].overall_timeout
       \/ \A c \in DOMAIN hist.probes[1].outcome : hist.probes[1].outcome[c] # "success"
    /\ \A b \in ExternalBuckets : returned_links_report[b] = <<>>

----------------------------------------------------------------------------
(* Delivery of the report to the dashboard *)

\* The failure path with the deliveries it enqueues, where the worker runs every
\* delivery task that waits in the broker: a queued Celery task is executed, and a
\* retried one is executed again once its countdown has passed.
FairSpec == SpecMark /\ WF_vars(send_report_to_dashboard)

\* the delivery task ran at least once
attempted == hist.attempt # None

\* C21 as stated: a delivery task makes at most 5 attempts in total.
FiveAttemptsInTotal ==
    attempted => hist.attempt[1].request.retries + 1 <= 5

\* C21: the retry after failed attempt number n (counting from 0) is scheduled
\* 60 * 2^n seconds later; a delivery task makes at most 6 attempts in total, the first
\* and at most 5 retries; and every queued delivery ends, delivered or dropped.
BoundedBackoff ==
    /\ [](\A k \in 1..Len(queue) :
             /\ queue[k].retries <= 5
             /\ queue[k].retries = 0 => queue[k].countdown = 0
             /\ \A n \in 0..4 : queue[k].retries = n + 1 => queue[k].countdown = 60 * 2 ^ n)
    /\ [](attempted => hist.attempt[1].request.retries + 1 <= 6)
    /\ (queue # <<>>) ~> (queue = <<>>)

\* a delivery dropped after its sixth attempt, the fifth retry, failed
DroppedAfterFiveRetries ==
    /\ attempted
    /\ hist.attempt[1].request.retries = 5
    /\ hist.attempt[1].request.countdown = 960
    /\ hist.attempt[1].post = "RequestError"
    /\ ~hist.attempt[1].retried
    /\ queue = <<>>

\* C22 as stated: an attempt schedules a retry if and only if its POST failed with a
\* request error.
RetriedIffTransportError ==
    attempted => (hist.attempt[1].retried <=> hist.attempt[1].post = "RequestError")

\* C22: an attempt schedules a retry only if its POST failed with a request error, and
\* then it does so as long as fewer than 5 retries have been made; after a delivered POST, an HTTP error
\* status, a payload error or a missing callback setting nothing is scheduled.
OnlyTransportErrorsRetried ==
    [][(attempted' /\ hist'.attempt # hist.attempt) =>
          LET attempt == hist'.attempt[1]
              again == Len(queue') = Len(queue)
          IN  /\ attempt.retried = again
              /\ again => attempt.post = "RequestError" /\ queue'[Len(queue')].retries
                                                              = attempt.request.retries + 1
              /\ (attempt.post = "RequestError" /\ attempt.request.retries < max_retries)
                    => again
              /\ attempt.post \in {"delivered", "HTTPStatusError", "TypeError",
                                    "not configured"} => Len(queue') = Len(queue) - 1]_vars

\* the dashboard answered with an error status and the delivery was not tried again
HttpErrorNotRetried ==
    /\ attempted
    /\ hist.attempt[1].post = "HTTPStatusError"
    /\ hist.attempt[1].request.retries = 0
    /\ ~hist.attempt[1].retried
    /\ queue = <<>>

\* C23: the payload a delivery task posts is made of the audit's fields as they were
\* when the task was queued.
SnapshotDelivered ==
    (attempted /\ hist.attempt[1].payload # None) =>
        hist.attempt[1].payload = callback_payload(hist.attempt[1].request.audit_when_queued)

\* C24: an audit in a failure status (FAILED, ERROR, PARTIAL) has a non-empty
\* error_message and a non-empty technical_error, and an audit in any terminal status
\* has completed_at set.
TerminalRecordsComplete ==
    /\ audit.status \in {"FAILED", "ERROR", "PARTIAL"} =>
          /\ audit.error_message # None /\ audit.error_message[1] # ""
          /\ audit.technical_error # None /\ audit.technical_error[1] # ""
    /\ audit.status \in {"FAILED", "ERROR", "PARTIAL", "COMPLETE"} =>
          audit.completed_at # None

----------------------------------------------------------------------------
(* compile_report_from_crawl on sampled page records *)

\* title cells: missing, empty, blank, a text, a text with blanks around it
TextSamples == {None, Some(""), Some(" "), Some("Home"), Some(" Home ")}

\* meta_desc cells
MetaSamples == {None, Some(" "), Some("About a")}

\* h1 cells: missing, "@@"-joined strings, native lists, numbers
H1Samples ==
    {None, H1Str(""), H1Str("A"), H1Str("A@@B"), H1List(<<>>), H1List(<<"A">>),
     H1List(<<"A", "B">>), H1Number(0), H1Number(7)}

\* status cells: missing, 200, 404
PageStatusSamples == {None, Some(200), Some(404)}

PageSamples ==
    {Page(Some(PageB), status, title, meta_desc, h1, Some(PageA), <<>>) :
        status \in PageStatusSamples, title \in TextSamples, meta_desc \in MetaSamples,
        h1 \in H1Samples}

\* a page that answered and a page that did not
LivePage == Page(Some(PageA), Some(200), Some("Home"), Some("About a"), H1Str("Home"), None, <<>>)
DeadPage == Page(Some(PageA), None, None, None, None, None, <<>>)

\* crawl tables of one sampled page, alone, after a live page, after a dead page
PageTables ==
    {<<p>> : p \in PageSamples} \cup {<<LivePage, p>> : p \in PageSamples}
        \cup {<<DeadPage, p>> : p \in PageSamples}

\* the state in which the chain calls compile_report_from_crawl
InitPages ==
    /\ url = "http://a.co"
    /\ settings = [callback_url |-> FALSE, api_key |-> FALSE]
    /\ audit = NewAudit
    /\ pc = "compile"
    /\ running = "crawl"
    /\ marks = <<>>
    /\ \E t \in PageTables : crawl_file = Some(TableFile(t))
    /\ chain_arg = Some(CrawlOutputFile)
    /\ queue = <<>>
    /\ clock = 1
    /\ hist = [NoHistory EXCEPT !.ran = <<[stage |-> "crawl", arg |-> None]>>,
                                !.returned = <<[stage |-> "crawl", value |-> CrawlOutputFile]>>,
                                !.crawl_started = TRUE]
    /\ engine = None

NextPages ==
    \/ compile_report_from_crawl
    \/ mark_audit_failed

SpecPages == InitPages /\ [][NextPages]_vars

----------------------------------------------------------------------------
(* Properties of the page analysis *)

\* the records of the crawl table and the report compile_report_from_crawl saved
crawled_rows == crawl_file[1].rows
compiled == hist.checkpoint # None
checks_of(row) == hist.checkpoint[1].page_level_report[row.url[1]]

\* the pieces of a text between the delimiters "@@"
RECURSIVE Pieces(_)
Pieces(text) ==
    IF \E k \in 1..(Len(text) - 1) : SubSeq(text, k, k + 1) = "@@"
    THEN LET k == CHOOSE j \in 1..(Len(text) - 1) :
                     /\ SubSeq(text, j, j + 1) = "@@"
                     /\ \A i \in 1..(j - 1) : SubSeq(text, i, i + 1) # "@@"
         IN  <<SubSeq(text, 1, k - 1)>> \o Pieces(SubSeq(text, k + 2, Len(text)))
    ELSE <<text>>

\* the non-empty headings of an h1 cell
headings(h1) ==
    IF h1 = None THEN <<>>
    ELSE SelectSeq(IF h1[1].kind = "list" THEN h1[1].items ELSE Pieces(h1[1].text),
                   LAMBDA t : t # "")

\* C25: the heading check of every page follows its heading list: exactly one heading
\* gives SUCCESS, none gives FAILURE with count 0, several give FAILURE with their
\* number as count and the full list as value; the report is compiled for every table.
HeadingCheck ==
    /\ \A k \in 1..Len(marks) : marks[k] # "Failed to compile page-level report: " \o ArrayTruthError
    /\ compiled =>
        \A k \in 1..Len(crawled_rows) :
            LET row == crawled_rows[k]
                found == headings(row.h1)
                check == checks_of(row)[3]
            IN  /\ check.check = "h1_heading"
                /\ Len(found) = 1 => check.status = "SUCCESS" /\ check.count = 1
                /\ Len(found) = 0 => check.status = "FAILURE" /\ check.count = 0
                /\ Len(found) > 1 =>
                      /\ check.status = "FAILURE"
                      /\ check.count = Len(found)
                      /\ check.value = [kind |-> "list", items |-> found]

\* C26: the title check of a page is SUCCESS exactly if the title is there and not
\* empty after trimming, and the meta description check follows the same rule.
TitleAndMetaCheck ==
    compiled =>
        \A k \in 1..Len(crawled_rows) :
            LET row == crawled_rows[k]
                filled(cell) == cell # None /\ Strip(cell[1]) # ""
            IN  /\ checks_of(row)[1].check = "title"
                /\ checks_of(row)[1].status = "SUCCESS" <=> filled(row.title)
                /\ checks_of(row)[2].check = "meta_description"
                /\ checks_of(row)[2].status = "SUCCESS" <=> filled(row.meta_desc)

\* C27: every page record without status, title, meta description and heading is in
\* internal_unreachable_links as an Unreachable entry.
StatuslessPagesRecorded ==
    compiled =>
        \A k \in 1..Len(crawled_rows) :
            LET row == crawled_rows[k]
            IN  (row.status = None /\ row.title = None /\ row.meta_desc = None
                    /\ row.h1 = None) =>
                    \E i \in 1..Len(hist.checkpoint[1].internal_unreachable_links) :
                        LET entry == hist.checkpoint[1].internal_unreachable_links[i]
                        IN  entry.url = row.url[1] /\ entry.status = "Unreachable"

----------------------------------------------------------------------------
(* classify_error on sampled messages *)

UpperChar(c) ==
    IF \E k \in 1..26 : LowerCase[k] = c
    THEN UpperCase[CHOOSE k \in 1..26 : LowerCase[k] = c]
    ELSE c

\* the text in capitals
RECURSIVE Upper(_)
Upper(s) ==
    IF Len(s) = 0 THEN ""
    ELSE IF Len(s) = 1 THEN UpperChar(s)
    ELSE Upper(SubSeq(s, 1, Len(s) \div 2)) \o Upper(SubSeq(s, Len(s) \div 2 + 1, Len(s)))

\* the text with its first half in capitals
HalfUpper(s) == Upper(SubSeq(s, 1, Len(s) \div 2)) \o SubSeq(s, Len(s) \div 2 + 1, Len(s))

\* lower-case texts: every pattern alone and inside a sentence, texts with two
\* patterns, texts with none
LowerTexts ==
    {ERROR_PATTERNS[k].pattern : k \in 1..Len(ERROR_PATTERNS)}
      \cup {"error: " \o ERROR_PATTERNS[k].pattern \o " (1)" : k \in 1..Len(ERROR_PATTERNS)}
      \cup {"connection timeout: nxdomain", "nxdomain while out of memory", "boom",
            "[errno 5] input/output error", "unknown"}

\* the calls: a missing message, an empty one, and every text in three casings
ClassifyCalls ==
    {[error_message |-> None, lowered |-> ""], [error_message |-> Some(""), lowered |-> ""]}
      \cup {[error_message |-> Some(t), lowered |-> t] : t \in LowerTexts}
      \cup {[error_message |-> Some(Upper(t)), lowered |-> t] : t \in LowerTexts}
      \cup {[error_message |-> Some(HalfUpper(t)), lowered |-> t] : t \in LowerTexts}

InitClassify ==
    /\ url = "http://a.co"
    /\ settings = [callback_url |-> FALSE, api_key |-> FALSE]
    /\ audit = NewAudit
    /\ pc = "failing"
    /\ running = "crawl"
    /\ marks = <<>>
    /\ crawl_file = None
    /\ chain_arg = None
    /\ queue = <<>>
    /\ clock = 1
    /\ hist = NoHistory
    /\ \E call \in ClassifyCalls :
          engine = [error_message |-> call.error_message, lowered |-> call.lowered,
                    error_info |-> None]

\* line 211: error_info = classify_error(error_message, url)
classify ==
    /\ engine # None
    /\ "error_info" \in DOMAIN engine
    /\ engine.error_info = None
    /\ engine' = [engine EXCEPT !.error_info = Some(classify_error(engine.error_message))]
    /\ UNCHANGED <<url, settings, audit, pc, running, marks, crawl_file, chain_arg, queue,
                   clock, hist>>

SpecClassify == InitClassify /\ [][classify]_vars

\* classify_error has returned
classified == engine # None /\ "error_info" \in DOMAIN engine /\ engine.error_info # None

\* the lower-case text of the call matches no pattern
unmatched == \A k \in 1..Len(ERROR_PATTERNS) : ~Contains(engine.lowered, ERROR_PATTERNS[k].pattern)

TechnicalIsRaw ==
    classified => Some(engine.error_info[1].technical_message) = engine.error_message

\* C29: classify_error returns for every message, also an empty or missing one, a
\* result with status FAILED or PARTIAL and a non-empty user message; the technical
\* message is the raw message, or "Unknown error occurred" when that is empty or
\* missing; a message matching no pattern gets the generic user message and FAILED.
ClassifierTotal ==
    classified =>
        LET error_info == engine.error_info[1]
            missing == engine.error_message = None \/ engine.error_message = Some("")
        IN  /\ DOMAIN error_info = {"user_message", "technical_message", "status"}
            /\ error_info.status \in {"FAILED", "PARTIAL"}
            /\ error_info.user_message # ""
            /\ error_info.technical_message # ""
            /\ ~missing => error_info.technical_message = engine.error_message[1]
            /\ missing => error_info.technical_message = "Unknown error occurred"
            /\ (unmatched /\ ~missing) =>
                  /\ error_info.status = "FAILED"
                  /\ error_info.user_message
                        = "Something went wrong while analyzing this website. Please try again."
            /\ missing =>
                  /\ error_info.status = "FAILED"
                  /\ error_info.user_message
                        = "Something went wrong while analyzing this website. Please try again."

\* a missing message and a message that matches nothing got the generic answer
UnmatchedClassified ==
    /\ classified
    /\ engine.error_message \in {None, Some("BOOM")}
    /\ engine.error_info[1].status = "FAILED"
    /\ engine.error_info[1].user_message = GenericUserMessage

----------------------------------------------------------------------------
(* Who writes the Audit row: the tasks of one audit on a pool of celery workers *)

\* chunk workers of check_external_links
MaxWriterChunks == 2
\* calls of _mark_audit_failed a failing stage makes
MaxMarkCalls == 2

\* A group that sends every stage at once (used to test SingleWriter)
sent_as_group == {Stages[k] : k \in 1..Len(Stages)}

\* lines 1114-1120: chain(...).apply_async() sends the first stage; each later stage is
\* sent when the one before it has returned
sent_by_chain == {Stages[1]}

\* the stage after s in the chain, None after the last
next_stage(s) ==
    IF StageIndex(s) < Len(Stages) THEN Some(Stages[StageIndex(s) + 1]) ELSE None

\* Positions of a stage task: "unsent", "queued" (in the broker), "started" (on a
\* worker), "read" (it holds the row it queried), "written" (it has committed and is not
\* done), "failing" (it calls _mark_audit_failed), "mark_read" (_mark_audit_failed holds
\* the row it queried), "gathering" (check_external_links waits for its chunk workers),
\* "returned", "raised"
InitWriters ==
    /\ url = "http://a.co"
    /\ settings = [callback_url |-> TRUE, api_key |-> TRUE]
    /\ audit = NewAudit
    /\ pc = "crawl"
    /\ running = ""
    /\ marks = <<>>
    /\ crawl_file = None
    /\ chain_arg = None
    /\ queue = <<>>
    /\ clock = 1
    /\ hist = NoHistory
    /\ \E n \in 1..MaxWriterChunks :
          engine = [pos |-> [k \in 1..Len(Stages) |->
                                IF Stages[k] \in sent_by_chain THEN "queued" ELSE "unsent"],
                    mark_calls |-> 0,
                    worker |-> [c \in 1..n |-> "idle"],
                    deliveries |-> 0,
                    reading |-> 0,
                    writes |-> 0]

writers == engine # None /\ "pos" \in DOMAIN engine

\* the stage has returned: the chain sends the next one
returns(e, k) ==
    [e EXCEPT !.pos = [j \in DOMAIN e.pos |->
                          IF j = k THEN "returned"
                          ELSE IF j = k + 1 /\ e.pos[j] = "unsent" THEN "queued"
                          ELSE e.pos[j]]]

\* a celery worker takes a stage task from the broker
task_starts ==
    /\ writers
    /\ \E k \in DOMAIN engine.pos :
          /\ engine.pos[k] = "queued"
          /\ engine' = [engine EXCEPT !.pos[k] = "started"]
    /\ UNCHANGED <<url, settings, audit, pc, running, marks, crawl_file, chain_arg, queue,
                   clock, hist>>

\* run_advertools_crawl returns its output file (it does not touch the row), or a check
\* fails and it calls _mark_audit_failed once or twice (lines 281-362)
crawl_ends ==
    /\ writers
    /\ engine.pos[StageIndex("crawl")] = "started"
    /\ \/ engine' = returns(engine, StageIndex("crawl"))
       \/ \E n \in 1..MaxMarkCalls :
             engine' = [engine EXCEPT !.pos[StageIndex("crawl")] = "failing", !.mark_calls = n]
    /\ UNCHANGED <<url, settings, audit, pc, running, marks, crawl_file, chain_arg, queue,
                   clock, hist>>

\* compile_report_from_crawl queries the row (line 768), or fails before that and
\* calls _mark_audit_failed (lines 392-569)
compile_reads ==
    /\ writers
    /\ engine.pos[StageIndex("compile")] = "started"
    /\ \/ engine' = [engine EXCEPT !.pos[StageIndex("compile")] = "read"]
       \/ \E n \in 1..MaxMarkCalls :
             engine' = [engine EXCEPT !.pos[StageIndex("compile")] = "failing",
                                      !.mark_calls = n]
    /\ UNCHANGED <<url, settings, audit, pc, running, marks, crawl_file, chain_arg, queue,
                   clock, hist>>

\* lines 770-779: the commit and the return, or the handler of line 780 on a failed commit
compile_writes ==
    /\ writers
    /\ engine.pos[StageIndex("compile")] = "read"
    /\ \/ engine' = [returns(engine, StageIndex("compile")) EXCEPT !.writes = @ + 1]
       \/ engine' = [engine EXCEPT !.pos[StageIndex("compile")] = "failing", !.mark_calls = 1]
    /\ UNCHANGED <<url, settings, audit, pc, running, marks, crawl_file, chain_arg, queue,
                   clock, hist>>

\* _mark_audit_failed queries the row (line 215)
mark_reads ==
    /\ writers
    /\ \E k \in DOMAIN engine.pos :
          /\ engine.pos[k] = "failing"
          /\ engine.mark_calls > 0
          /\ engine' = [engine EXCEPT !.pos[k] = "mark_read"]
    /\ UNCHANGED <<url, settings, audit, pc, running, marks, crawl_file, chain_arg, queue,
                   clock, hist>>

\* lines 218-238: the row is in a final state and left alone, or it is written and the
\* delivery task is queued
mark_writes ==
    /\ writers
    /\ \E k \in DOMAIN engine.pos, final \in BOOLEAN :
          /\ engine.pos[k] = "mark_read"
          /\ engine' = [engine EXCEPT !.pos[k] = "failing",
                                      !.mark_calls = @ - 1,
                                      !.writes = IF final THEN @ ELSE @ + 1,
                                      !.deliveries = IF final THEN @ ELSE @ + 1]
    /\ UNCHANGED <<url, settings, audit, pc, running, marks, crawl_file, chain_arg, queue,
                   clock, hist>>

\* the stage raises after its calls of _mark_audit_failed: the chain ends
stage_raises ==
    /\ writers
    /\ \E k \in DOMAIN engine.pos :
          /\ engine.pos[k] = "failing"
          /\ engine.mark_calls = 0
          /\ engine' = [engine EXCEPT !.pos[k] = "raised"]
    /\ UNCHANGED <<url, settings, audit, pc, running, marks, crawl_file, chain_arg, queue,
                   clock, hist>>

\* check_external_links starts its chunk workers (lines 1754-1763)
check_gathers ==
    /\ writers
    /\ engine.pos[StageIndex("check")] = "started"
    /\ engine' = [engine EXCEPT !.pos[StageIndex("check")] = "gathering",
                                !.worker = [c \in DOMAIN engine.worker |-> "working"]]
    /\ UNCHANGED <<url, settings, audit, pc, running, marks, crawl_file, chain_arg, queue,
                   clock, hist>>

\* run_advertools_chunk ends in its thread; it reads and writes chunk files only
chunk_worker_ends ==
    /\ writers
    /\ \E c \in DOMAIN engine.worker :
          /\ engine.worker[c] = "working"
          /\ engine' = [engine EXCEPT !.worker[c] = "ended"]
    /\ UNCHANGED <<url, settings, audit, pc, running, marks, crawl_file, chain_arg, queue,
                   clock, hist>>

\* check_external_links returns: every executor has been shut down, which waits for
\* its worker (line 1754), also after a timeout
check_returns ==
    /\ writers
    /\ engine.pos[StageIndex("check")] = "gathering"
    /\ \A c \in DOMAIN engine.worker : engine.worker[c] = "ended"
    /\ engine' = returns(engine, StageIndex("check"))
    /\ UNCHANGED <<url, settings, audit, pc, running, marks, crawl_file, chain_arg, queue,
                   clock, hist>>

\* save_final_report queries the row (line 929)
save_reads ==
    /\ writers
    /\ engine.pos[StageIndex("save")] = "started"
    /\ engine' = [engine EXCEPT !.pos[StageIndex("save")] = "read"]
    /\ UNCHANGED <<url, settings, audit, pc, running, marks, crawl_file, chain_arg, queue,
                   clock, hist>>

\* lines 971-983: the commit of COMPLETE, and the delivery task queued
save_writes ==
    /\ writers
    /\ engine.pos[StageIndex("save")] = "read"
    /\ \E enqueue_ok \in BOOLEAN :
          engine' = [engine EXCEPT !.pos[StageIndex("save")] =
                                        IF enqueue_ok THEN "returned" ELSE "written",
                                   !.writes = @ + 1,
                                   !.deliveries = IF enqueue_ok THEN @ + 1 ELSE @]
    /\ UNCHANGED <<url, settings, audit, pc, running, marks, crawl_file, chain_arg, queue,
                   clock, hist>>

\* lines 984-992: the handler writes ERROR through the same session
save_writes_error ==
    /\ writers
    /\ engine.pos[StageIndex("save")] = "written"
    /\ engine' = [engine EXCEPT !.pos[StageIndex("save")] = "returned", !.writes = @ + 1]
    /\ UNCHANGED <<url, settings, audit, pc, running, marks, crawl_file, chain_arg, queue,
                   clock, hist>>

\* send_report_to_dashboard on another worker: it queries the row (line 1029) ...
delivery_reads ==
    /\ writers
    /\ engine.deliveries > 0
    /\ engine' = [engine EXCEPT !.deliveries = @ - 1, !.reading = @ + 1]
    /\ UNCHANGED <<url, settings, audit, pc, running, marks, crawl_file, chain_arg, queue,
                   clock, hist>>

\* ... and ends after the POST (line 1106: db.close()); it writes nothing
delivery_ends ==
    /\ writers
    /\ engine.reading > 0
    /\ engine' = [engine EXCEPT !.reading = @ - 1]
    /\ UNCHANGED <<url, settings, audit, pc, running, marks, crawl_file, chain_arg, queue,
                   clock, hist>>

NextWriters ==
    \/ task_starts
    \/ crawl_ends
    \/ compile_reads
    \/ compile_writes
    \/ mark_reads
    \/ mark_writes
    \/ stage_raises
    \/ check_gathers
    \/ chunk_worker_ends
    \/ check_returns
    \/ save_reads
    \/ save_writes
    \/ save_writes_error
    \/ delivery_reads
    \/ delivery_ends

SpecWriters == InitWriters /\ [][NextWriters]_vars

\* the stage tasks that are on a worker, and those that hold the row for writing
on_worker ==
    {k \in DOMAIN engine.pos :
        engine.pos[k] \in {"started", "read", "written", "failing", "mark_read", "gathering"}}
writing == {k \in DOMAIN engine.pos : engine.pos[k] \in {"read", "written", "mark_read"}}

\* C30: at most one task of the audit's chain is on a worker at any time, so at most
\* one operation holds the Audit row between its read and its commit; while one does,
\* no chunk worker runs; and every write to the row is made by such an operation.
SingleWriter ==
    [][writers =>
          /\ Cardinality(on_worker) <= 1
          /\ Cardinality(writing) <= 1
          /\ writing # {} => \A c \in DOMAIN engine.worker : engine.worker[c] # "working"
          /\ engine'.writes # engine.writes =>
                /\ engine'.writes = engine.writes + 1
                /\ writing # {}
                /\ \A c \in DOMAIN engine.worker : engine.worker[c] # "working"]_vars

\* _mark_audit_failed holds the row for its second write while a delivery task queued
\* by the first reads it
MarkWritesBesideDelivery ==
    /\ writers
    /\ engine.writes = 1
    /\ engine.reading = 1
    /\ \E k \in DOMAIN engine.pos : engine.pos[k] = "mark_read"

----------------------------------------------------------------------------
(* The crawl output file *)

\* the chain has ended: the last stage returned or a stage raised
pipeline_ended == pc \in {"done", "aborted"}

\* C31: whenever the pipeline has ended in a terminal status (COMPLETE, FAILED, ERROR),
\* the crawl output file of the audit no longer exists.
ArtifactDeleted ==
    (pipeline_ended /\ audit.status \in {"COMPLETE", "FAILED", "ERROR"}) =>
        crawl_file = None

----------------------------------------------------------------------------
(* Internal and external links side by side *)

\* the internal bucket that stands for an external one in the final report
\* (save_final_report, lines 935-969)
internal_counterpart(b) ==
    CASE b = "unreachable_links" -> "internal_unreachable_links"
      [] b = "broken_links" -> "internal_broken_links"
      [] b = "permission_issues" -> "internal_permission_issue_links"
      [] b = "method_issues" -> "internal_method_issue_links"
      [] b = "other_client_errors" -> "internal_other_client_errors"

\* C32: a url whose final status as external link is s >= 400 and which is also a
\* crawled internal page with status s gets the same decision from both analyses: it is
\* in no bucket of either report, or in the buckets that stand for each other.
TreatedIdentically ==
    (links_verified /\ internal_analysed) =>
        \A k \in 1..Len(final_results) :
            \A j \in 1..Len(engine.rows) :
                (/\ final_results[k].status >= 400
                 /\ engine.rows[j].url = Some(final_results[k].url)
                 /\ engine.rows[j].status = Some(final_results[k].status))
                    => internal_buckets_of(final_results[k].url)
                         = {internal_counterpart(b) :
                                b \in external_buckets_of(final_results[k].url)}

\* a plain url answered 503 as external link and as internal page, and both reports
\* hold it as a broken link
ServerErrorBrokenInBoth ==
    /\ links_verified
    /\ internal_analysed
    /\ engine.rows[1].url = Some(ExtA)
    /\ engine.rows[1].status = Some(503)
    /\ \E k \in 1..Len(final_results) :
          final_results[k].url = ExtA /\ final_results[k].status = 503
    /\ external_buckets_of(ExtA) = {"broken_links"}
    /\ internal_buckets_of(ExtA) = {"internal_broken_links"}

----------------------------------------------------------------------------
(* Termination of the verification *)

\* a step of the event loop: anything the engine does but the work of a worker thread
loop_step ==
    \/ process_chunk_async
    \/ chunk_returns
    \/ chunk_timeout
    \/ executor_shutdown
    \/ time_passes
    \/ overall_timeout
    \/ merge_results

\* C33: check_external_links_async returns a report even if the worker of some chunk
\* never finishes: as long as it has not returned, the event loop has a step to take
\* that waits for no worker (a chunk is let in, returns or times out, the overall
\* timeout ends the gather, the results are merged).
ReturnsWithoutWorkers ==
    gathering => ENABLED loop_step

----------------------------------------------------------------------------
(* chunk_urls_by_domain on its own, applied to lists of unique urls: one domain with
   more urls than a chunk holds, two domains, more domains than a chunk holds, urls
   that urlparse rejects and urls without a netloc *)

\* the longest list of numbered urls
MaxUrls == 42

\* the numbers of domains the numbered urls are spread over
DomainCounts == {1, 2, MaxChunkSize + 1}

\* n unique urls that go to d domains in turn
numbered_urls(n, d) == [i \in 1..n |-> numbered_link(i, d)]

\* urls urlparse raises on (both counted to the domain "unknown"), urls without a
\* netloc, and two spellings of one host
OddUrls ==
    <<"http://[bad/1", "mailto:x@ext.io", "http://[bad/2", "/about", "http://EXT.io/a",
      "http://ext.io/b">>

ChunkInputs ==
    {numbered_urls(n, d) : n \in 1..MaxUrls, d \in DomainCounts}
        \cup {SubSeq(OddUrls, 1, k) \o numbered_urls(n, 1) : k \in 1..Len(OddUrls), n \in 0..2}

InitChunks ==
    /\ url = "http://a.co"
    /\ settings = [callback_url |-> FALSE, api_key |-> FALSE]
    /\ audit = NewAudit
    /\ pc = "check"
    /\ running = ""
    /\ marks = <<>>
    /\ crawl_file = None
    /\ chain_arg = None
    /\ queue = <<>>
    /\ clock = 1
    /\ hist = NoHistory
    /\ \E urls \in ChunkInputs : engine = [urls |-> urls, chunks |-> None]

\* line 1726: chunks = chunk_urls_by_domain(urls, max_chunk_size=20)
make_chunks ==
    /\ engine # None
    /\ "chunks" \in DOMAIN engine
    /\ "task" \notin DOMAIN engine
    /\ engine.chunks = None
    /\ engine' = [engine EXCEPT !.chunks = Some(chunk_urls_by_domain(engine.urls, MaxChunkSize))]
    /\ UNCHANGED <<url, settings, audit, pc, running, marks, crawl_file, chain_arg, queue,
                   clock, hist>>

SpecChunks == InitChunks /\ [][make_chunks]_vars

\* the urls have been chunked
chunked == engine # None /\ "urls" \in DOMAIN engine /\ engine.chunks # None

\* the number of chunks that hold u
chunks_holding(u) ==
    Cardinality({c \in 1..Len(engine.chunks[1]) :
                    \E i \in 1..Len(engine.chunks[1][c]) : engine.chunks[1][c][i] = u})

\* C34: every input url is in exactly one chunk, once; every chunk holds between 1 and
\* 20 urls; nothing but input urls is in a chunk.
ChunkingIsPartition ==
    chunked =>
        LET chunks == engine.chunks[1]
            all == Flatten(chunks)
        IN  /\ Len(all) = Len(engine.urls)
            /\ \A k \in 1..Len(engine.urls) : chunks_holding(engine.urls[k]) = 1
            /\ \A c \in 1..Len(chunks) : Len(chunks[c]) >= 1 /\ Len(chunks[c]) <= 20

\* 42 urls of 21 domains: two chunks of 21 urls, each split into one of 20 and one of 1
LargeChunksSplit ==
    /\ chunked
    /\ Len(engine.urls) = 42
    /\ Len(engine.chunks[1]) = 4
    /\ Len(engine.chunks[1][1]) = 20
    /\ Len(engine.chunks[1][2]) = 1

\* the urls of chunk c that chunk_urls_by_domain counts to domain d
of_domain(c, d) ==
    {i \in 1..Len(engine.chunks[1][c]) : domain_of(engine.chunks[1][c][i]) = d}

\* the input urls counted to domain d
input_of_domain(d) == {k \in 1..Len(engine.urls) : domain_of(engine.urls[k]) = d}

\* C35: a chunk holds at most ceil(n_d / 20) urls of a domain d that has n_d input
\* urls; the urls of a domain with at most 20 urls are in pairwise different chunks.
\* The domain of a url is its netloc as urlparse gives it.
DomainsAreSpread ==
    chunked =>
        \A k \in 1..Len(engine.urls) :
            LET d == domain_of(engine.urls[k])
                n_d == Cardinality(input_of_domain(d))
            IN  \A c \in 1..Len(engine.chunks[1]) :
                    /\ Cardinality(of_domain(c, d)) <= (n_d + 19) \div 20
                    /\ n_d <= 20 => Cardinality(of_domain(c, d)) <= 1

\* 40 urls of two domains: 20 chunks, each with one url of either domain
TwoDomainsInterleaved ==
    /\ chunked
    /\ Len(engine.urls) = 40
    /\ Cardinality({domain_of(engine.urls[k]) : k \in 1..Len(engine.urls)}) = 2
    /\ Len(engine.chunks[1]) = 20
    /\ \A c \in 1..Len(engine.chunks[1]) :
          /\ Len(engine.chunks[1][c]) = 2
          /\ domain_of(engine.chunks[1][c][1]) # domain_of(engine.chunks[1][c][2])

----------------------------------------------------------------------------
(* run_advertools_chunk on its own: a chunk of two urls, with every answer to the HEAD
   request of each and every answer to the GET fallback *)

\* what run_get_fallback_check returns for a url of the chunk
FallbackSamples == {-1, 200, 404}

ChunkInputs2 ==
    {[urls |-> <<ExtA, ExtB>>, head |-> h, get |-> g] :
        h \in [{ExtA, ExtB} -> HeadSamples], g \in [{ExtA, ExtB} -> FallbackSamples]}

InitFallback ==
    /\ url = "http://a.co"
    /\ settings = [callback_url |-> FALSE, api_key |-> FALSE]
    /\ audit = NewAudit
    /\ pc = "check"
    /\ running = ""
    /\ marks = <<>>
    /\ crawl_file = None
    /\ chain_arg = None
    /\ queue = <<>>
    /\ clock = 1
    /\ hist = NoHistory
    /\ \E input \in ChunkInputs2 :
          engine = [urls |-> input.urls, head |-> input.head, get |-> input.get,
                    final_results |-> None]

\* run_advertools_chunk(urls, output_file) in its worker thread, to its return
chunk_worker ==
    /\ engine # None
    /\ "final_results" \in DOMAIN engine
    /\ engine.final_results = None
    /\ engine' = [engine EXCEPT !.final_results =
                    Some(run_advertools_chunk(engine.urls, engine.head, engine.get))]
    /\ UNCHANGED <<url, settings, audit, pc, running, marks, crawl_file, chain_arg, queue,
                   clock, hist>>

SpecFallback == InitFallback /\ [][chunk_worker]_vars

\* the chunk has been probed
probed == engine # None /\ "final_results" \in DOMAIN engine /\ engine.final_results # None

\* C36: a url gets the GET fallback if and only if its HEAD result is a 4xx status or
\* no status at all (the request failed); a url that gets no fallback keeps its HEAD
\* status as final.
EscalationExact ==
    probed =>
        \A k \in 1..Len(engine.final_results[1]) :
            LET row == engine.final_results[1][k]
                h == engine.head[row.url]
                failed == h = None
                client_error == h # None /\ 400 <= h[1] /\ h[1] < 500
            IN  /\ (row.method_used = Some("GET_FALLBACK")) <=> (failed \/ client_error)
                /\ row.method_used = None => row.status = h

----------------------------------------------------------------------------
(* get_domain_safe_settings: the crawler settings of a chunk *)

\* lines 1191-1201
gentle_subdomains ==
    <<"account.", "auth.", "login.", "sso.", "admin.", "dashboard.", "portal.", "secure.">>

\* lines 1206-1212
crawler_blocking_patterns ==
    <<"facebook.com", "twitter.com", "x.com", "instagram.com", "linkedin.com">>

\* lines 1217-1225
auth_paths ==
    <<"/auth/", "/login/", "/dashboard/", "/admin/", "/account/", "/profile/", "/membership/">>

\* urlparse(u).path: what follows the netloc, up to the query or the fragment. (The
\* parameters urlparse cuts off start after the last "/", and every auth path ends
\* with "/": they cannot change a match.)
path_of(u) ==
    LET rest == SubSeq(u, scheme_end(u) + 1, Len(u))
        after == IF StartsWith(rest, "//")
                 THEN SubSeq(rest, 3 + Len(netloc_of(rest)), Len(rest))
                 ELSE rest
    IN  SubSeq(after, 1, FirstOf(after, {"?", "#"}) - 1)

\* requires_gentle_crawling(url), lines 1182-1230
requires_gentle_crawling(u) ==
    LET parsed == urlparse(Lower(u))
    IN  /\ parsed.ok
        /\ \/ \E k \in 1..Len(gentle_subdomains) :
                 StartsWith(hostname_of(parsed.netloc), gentle_subdomains[k])
           \/ AnyIn(crawler_blocking_patterns, hostname_of(parsed.netloc))
           \/ AnyIn(auth_paths, path_of(Lower(u)))

\* the settings returned at lines 1272-1289, 1293-1305 and 1308-1320 (the headers and
\* the user agent, the same in all three, left out)
GentleProfile ==
    [DOWNLOAD_DELAY |-> 3, CONCURRENT_REQUESTS_PER_DOMAIN |-> 1, DOWNLOAD_TIMEOUT |-> 15,
     DNS_TIMEOUT |-> 8, RETRY_ENABLED |-> TRUE, RETRY_TIMES |-> 2]
ConservativeProfile ==
    [DOWNLOAD_DELAY |-> 2, CONCURRENT_REQUESTS_PER_DOMAIN |-> 1, DOWNLOAD_TIMEOUT |-> 12,
     DNS_TIMEOUT |-> 6, RETRY_ENABLED |-> TRUE, RETRY_TIMES |-> 1]
AggressiveProfile ==
    [DOWNLOAD_DELAY |-> 1, CONCURRENT_REQUESTS_PER_DOMAIN |-> 2, DOWNLOAD_TIMEOUT |-> 10,
     DNS_TIMEOUT |-> 5, RETRY_ENABLED |-> TRUE, RETRY_TIMES |-> 1]

\* lines 1232-1242: the urls urlparse accepts; the others are skipped
parsed_urls(urls) == SelectSeq(urls, LAMBDA u : urlparse(u).ok)

\* Settings chosen by the number of domains first (used to test ProfileSelection)
domain_count_first(urls) ==
    LET seen == parsed_urls(urls)
    IN  IF Cardinality({urlparse(seen[k]).netloc : k \in 1..Len(seen)}) = 1
        THEN ConservativeProfile
        ELSE IF SelectSeq(seen, requires_gentle_crawling) # <<>> THEN GentleProfile
        ELSE AggressiveProfile

\* get_domain_safe_settings(urls)
get_domain_safe_settings(urls) ==
    LET seen == parsed_urls(urls)
        domains == {urlparse(seen[k]).netloc : k \in 1..Len(seen)}
        auth_domains_found == SelectSeq(seen, requires_gentle_crawling)
    IN  IF auth_domains_found # <<>> THEN GentleProfile
        ELSE IF Cardinality(domains) = 1 THEN ConservativeProfile
        ELSE AggressiveProfile

\* the longest url list of a chunk
MaxChunkUrls == 3

\* plain urls of two domains, urls of each rule of requires_gentle_crawling (one in
\* capitals), a url without netloc and a url urlparse rejects
SettingsUrls ==
    {ExtA, ExtB, "http://d0.io/1", "http://sso.ext.io/", "http://ext.io/LOGIN/x?y",
     "http://linkedin.com/in/x", "http://d0.io/?next=/login/", "/about", "http://[bad/1"}

InitSettings ==
    /\ url = "http://a.co"
    /\ settings = [callback_url |-> FALSE, api_key |-> FALSE]
    /\ audit = NewAudit
    /\ pc = "check"
    /\ running = ""
    /\ marks = <<>>
    /\ crawl_file = None
    /\ chain_arg = None
    /\ queue = <<>>
    /\ clock = 1
    /\ hist = NoHistory
    /\ \E n \in 1..MaxChunkUrls : \E urls \in [1..n -> SettingsUrls] :
          engine = [urls |-> urls, custom_settings |-> None]

\* line 1338: custom_settings = get_domain_safe_settings(urls)
choose_settings ==
    /\ engine # None
    /\ "custom_settings" \in DOMAIN engine
    /\ engine.custom_settings = None
    /\ engine' = [engine EXCEPT !.custom_settings = Some(get_domain_safe_settings(engine.urls))]
    /\ UNCHANGED <<url, settings, audit, pc, running, marks, crawl_file, chain_arg, queue,
                   clock, hist>>

SpecSettings == InitSettings /\ [][choose_settings]_vars

\* the settings have been chosen
settings_chosen ==
    engine # None /\ "custom_settings" \in DOMAIN engine /\ engine.custom_settings # None

\* the netlocs of the urls of the chunk that have one
netlocs_of_chunk ==
    {urlparse(engine.urls[k]).netloc :
        k \in {i \in 1..Len(engine.urls) : urlparse(engine.urls[i]).ok}}

\* C37: the settings are the gentle profile (delay 3, one request per domain at a time,
\* retries enabled) if a url of the list is authentication-sensitive, otherwise the
\* conservative profile (delay 2, one request) if the urls have exactly one domain,
\* otherwise the aggressive profile (delay 1, two requests).
ProfileSelection ==
    settings_chosen =>
        LET chosen == engine.custom_settings[1]
            sensitive == \E k \in 1..Len(engine.urls) : requires_gentle_crawling(engine.urls[k])
        IN  IF sensitive
            THEN /\ chosen.DOWNLOAD_DELAY = 3
                 /\ chosen.CONCURRENT_REQUESTS_PER_DOMAIN = 1
                 /\ chosen.RETRY_ENABLED
            ELSE IF Cardinality(netlocs_of_chunk) = 1
            THEN chosen.DOWNLOAD_DELAY = 2 /\ chosen.CONCURRENT_REQUESTS_PER_DOMAIN = 1
            ELSE chosen.DOWNLOAD_DELAY = 1 /\ chosen.CONCURRENT_REQUESTS_PER_DOMAIN = 2

\* a chunk of one domain with a login page in it gets the gentle profile
LoginPageOnOneDomain ==
    /\ settings_chosen
    /\ engine.urls = <<ExtA, "http://ext.io/LOGIN/x?y">>
    /\ engine.custom_settings[1].DOWNLOAD_DELAY = 3
----------------------------------------------------------------------------
(* compile_report_from_crawl on tables that hold a page URL more than once *)

\* a second record of the sampled page's URL, as a crawl that reached it twice writes it
RepeatedPage == Page(Some(PageB), Some(200), Some("Home"), Some("About a"), H1Str("Home"), Some(PageA), <<>>)

\* crawl tables of one sampled page: alone, after a page of another URL, after a record
\* of its own URL
RepeatTables ==
    {<<p>> : p \in PageSamples} \cup {<<LivePage, p>> : p \in PageSamples}
        \cup {<<RepeatedPage, p>> : p \in PageSamples}

InitRepeats ==
    /\ url = "http://a.co"
    /\ settings = [callback_url |-> FALSE, api_key |-> FALSE]
    /\ audit = NewAudit
    /\ pc = "compile"
    /\ running = "crawl"
    /\ marks = <<>>
    /\ \E t \in RepeatTables : crawl_file = Some(TableFile(t))
    /\ chain_arg = Some(CrawlOutputFile)
    /\ queue = <<>>
    /\ clock = 1
    /\ hist = [NoHistory EXCEPT !.ran = <<[stage |-> "crawl", arg |-> None]>>,
                                !.returned = <<[stage |-> "crawl", value |-> CrawlOutputFile]>>,
                                !.crawl_started = TRUE]
    /\ engine = None

SpecRepeats == InitRepeats /\ [][NextPages]_vars

\* the summary of the compiled report and the checks it holds per page
compiled_summary == hist.checkpoint[1].summary
compiled_pages == hist.checkpoint[1].page_level_report
pages_failing(n) == Cardinality({u \in DOMAIN compiled_pages : compiled_pages[u][n].status = "FAILURE"})

\* C38: in every compiled report, pages_missing_title is the number of pages whose title
\* check is FAILURE and is not negative, pages_missing_meta_description likewise, and the
\* three h1 counts add up to total_pages_analyzed.
SummaryCountsAgree ==
    compiled =>
        /\ compiled_summary.pages_missing_title = pages_failing(1)
        /\ compiled_summary.pages_missing_title >= 0
        /\ compiled_summary.pages_missing_meta_description = pages_failing(2)
        /\ compiled_summary.pages_missing_meta_description >= 0
        /\ compiled_summary.pages_with_correct_h1 + compiled_summary.pages_with_multiple_h1s
              + compiled_summary.pages_with_no_h1 = compiled_summary.total_pages_analyzed

\* the same on tables that hold every page URL once
SummaryCountsAgreeOnce ==
    (compiled /\ \A j, k \in 1..Len(crawled_rows) :
                    crawled_rows[j].url = crawled_rows[k].url => j = k)
        => SummaryCountsAgree
----------------------------------------------------------------------------
(* Findings per link *)

\* the positions of the findings for u in the bucket b of a report
findings_for(report, b, u) == {k \in 1..Len(report[b]) : report[b][k].url = u}

\* the urls a report holds findings for
reported_urls(report, buckets) ==
    UNION {{report[b][k].url : k \in 1..Len(report[b])} : b \in buckets}

\* u has at most one finding in the buckets of the report
one_finding(report, buckets, u) ==
    /\ Cardinality({b \in buckets : findings_for(report, b, u) # {}}) <= 1
    /\ \A b \in buckets : Cardinality(findings_for(report, b, u)) <= 1

\* the external half: every url has at most one finding in the five external buckets
OneExternalFindingPerLink ==
    links_verified =>
        \A u \in reported_urls(engine.external_links_report[1], ExternalBuckets) :
            one_finding(engine.external_links_report[1], ExternalBuckets, u)

\* C39: every url has at most one finding in the five internal buckets and at most one
\* in the five external buckets, also when several pages refer to it.
OneFindingPerLink ==
    /\ OneExternalFindingPerLink
    /\ internal_analysed =>
          \A u \in reported_urls(engine.internal_links_report[1], InternalBuckets) :
              one_finding(engine.internal_links_report[1], InternalBuckets, u)
----------------------------------------------------------------------------
(* Notifications of one audit *)

\* a send_report_to_dashboard task has been queued before: it waits in the broker or the
\* worker has run it
notified_before == queue # <<>> \/ hist.attempt # None

\* the step queues a new send_report_to_dashboard task
queues_notification ==
    /\ Len(queue') = Len(queue) + 1
    /\ queue'[Len(queue')].retries = 0

\* C40: over the lifetime of an audit at most one send_report_to_dashboard task is
\* queued, and none when no callback URL is configured.
AtMostOneNotification ==
    [][queues_notification => (~notified_before /\ callback_configured)]_vars

\* the half on the configuration: nothing is queued without a callback URL
NoneWithoutCallbackUrl == [][queues_notification => callback_configured]_vars

====
